---- MODULE Spec2Model ----
(***************************************************************************)
(* Model of the finance MCP server: the TTL cache (utils/cache.py), the    *)
(* request dispatcher and its tool handlers (server.py) and the cache-key  *)
(* derivation.  The market-data adapter (adapters/akshare_adapter.py) is   *)
(* an external collaborator: every call returns one of the outcomes its    *)
(* code can produce, chosen nondeterministically.                          *)
(*                                                                         *)
(* Python strings that are built by concatenation (cache keys) are         *)
(* sequences of tokens.  JSON values are records [t, text, items]: an atom *)
(* carries its JSON text, a mapping carries its items in insertion order.  *)
(***************************************************************************)
EXTENDS Integers, Sequences, FiniteSets, TLC

VARIABLES
    cache,         \* DataCache._cache: key -> [value, expiry]
    now,           \* time.time()
    nticks,        \* number of clock advances so far (bounds the run)
    lastOp,        \* the last direct DataCache call since the last request: its arguments,
                   \* the entry it found under its key and what it returned
    purged,        \* keys whose entry a get() found expired and removed, and not set since
    response,      \* the response handle_request returned last
    lastReq,       \* the request handle_request handled last
    lastTime,      \* time.time() while lastReq was handled
    adapterCalls,  \* adapter calls made while lastReq was handled
    handlerRan,    \* handler that ran while lastReq was handled ("none" if none)
    cacheReads,    \* keys cache.get was called with while lastReq was handled
    reqCount,      \* number of requests handled so far (bounds the run)
    keyIn,         \* inputs of the cache-key function under test
    keyOut,        \* the keys _generate_cache_key returned for keyIn
    techIn,        \* price frame and indicator list handed to process_indicators
    techOut,       \* what process_indicators returned for techIn
    finIn,         \* statements, price and share count handed to the fundamental engine
    finOut,        \* what analyze_financial_statements returned for finIn
    seriesIn,      \* close and volume columns of the rows handed to the indicator formulas
    seriesOut,     \* the MA, RSI and OBV entries computed for seriesIn
    loop,          \* mcp_server_loop: where it stands, the line in hand, lines read and
                   \* written so far
    tools,         \* finance_tools module: _initialized, the integration's server_process
                   \* and where each tool invocation stands
    client,        \* FinanceServerIntegration.send_request: request_id, the two pipes to
                   \* the server and the calls made so far
    advice         \* the three responses get_investment_recommendation received and what
                   \* it returned

vars == <<cache, now, nticks, lastOp, purged, response, lastReq, lastTime,
          adapterCalls, handlerRan, cacheReads, reqCount, keyIn, keyOut,
          techIn, techOut, finIn, finOut, seriesIn, seriesOut, loop,
          tools, client, advice>>

serverVars == <<response, lastReq, lastTime, adapterCalls, handlerRan, cacheReads,
                reqCount>>
keyVars == <<keyIn, keyOut>>
engineVars == <<techIn, techOut, finIn, finOut, seriesIn, seriesOut>>
seriesVars == <<seriesIn, seriesOut>>
clientVars == <<tools, client, advice>>
cacheVars == <<cache, now, nticks, lastOp, purged>>

---------------------------------------------------------------------------
(* Bounds *)

MaxTicks == 2
MaxRequests == 2
MaxPairs == 3
MaxLines == 3
MaxIndicators == 2
MaxAmount == 1
MaxRows == 5
MaxPrice == 2
MaxExtra == 1

(* Program constants *)

DefaultTtl == 3600
TtlStockInfo == 86400
TtlStockPrice == 3600
TtlFinancialReport == 604800
TtlTechnical == 3600
TtlIndustry == 86400
TtlFallback == 3600
MinColumns == 4
RsiWindow == 14

\* time.time() at construction: seconds since the epoch, positive
StartTime == 1

---------------------------------------------------------------------------
(* JSON values *)

\* t is the JSON type: "str", "num", "bool", "null", "list" or "map"
Atom(type, txt) == [t |-> type, text |-> txt, items |-> <<>>]
Map(its) == [t |-> "map", text |-> "", items |-> its]
Pair(k, v) == [k |-> k, v |-> v]

Str(s) == Atom("str", s)
Num(n) == Atom("num", n)
JsonNull == Atom("null", "null")
JsonTrue == Atom("bool", "true")
JsonFalse == Atom("bool", "false")
IsMap(j) == j.t = "map"

\* hash(value) is defined: lists and dicts are unhashable
Hashable(j) == j.t \notin {"list", "map"}

\* iter(value) is defined
Iterable(j) == j.t \in {"list", "map", "str"}

\* bool(value) for the JSON values the model uses
JsonTruthy(j) ==
    /\ j.t # "null"
    /\ ~(j.t = "bool" /\ j.text = "false")
    /\ ~(j.t = "map" /\ j.items = <<>>)

\* Python's ordering of the key strings the model uses (str.__lt__)
KeyOrder == <<"a", "b", "include_market_ratios", "indicators", "market",
              "period", "periods", "report_type", "symbol">>

KeyRankOf == [k \in {KeyOrder[i] : i \in 1..Len(KeyOrder)} |->
                 CHOOSE i \in 1..Len(KeyOrder) : KeyOrder[i] = k]

KeyRank(k) == KeyRankOf[k]

Range(s) == {s[i] : i \in 1..Len(s)}

\* dict.get(key, default) on an insertion-ordered mapping
DictGet(m, key, default) ==
    IF \E i \in 1..Len(m.items) : m.items[i].k = key
    THEN m.items[CHOOSE i \in 1..Len(m.items) : m.items[i].k = key].v
    ELSE default

\* sorted(items) by key, as json.dumps(sort_keys=True) orders a dict
RECURSIVE SortItems(_)
SortItems(its) ==
    IF its = <<>> THEN <<>>
    ELSE LET i == CHOOSE i \in 1..Len(its) :
                      \A j \in 1..Len(its) : KeyRank(its[i].k) <= KeyRank(its[j].k)
             rest == [j \in 1..(Len(its) - 1) |-> IF j < i THEN its[j] ELSE its[j + 1]]
         IN  <<its[i]>> \o SortItems(rest)

\* the mutant: json.dumps without sort_keys keeps insertion order
UnsortedItems(its) == its

ItemOrder(its) == SortItems(its)

\* json.dumps(value, sort_keys=True) as a token sequence
RECURSIVE JsonDumps(_)
RECURSIVE DumpItems(_)
DumpItems(its) ==
    IF its = <<>> THEN <<>>
    ELSE <<"\"", its[1].k, "\"", ": ">> \o JsonDumps(its[1].v)
         \o (IF Len(its) > 1 THEN <<", ">> ELSE <<>>)
         \o DumpItems(Tail(its))

JsonDumps(j) ==
    IF IsMap(j) THEN <<"{">> \o DumpItems(ItemOrder(j.items)) \o <<"}">>
    ELSE IF j.t = "str" THEN <<"\"", j.text, "\"">>
    ELSE <<j.text>>

\* FinanceMCPServer._generate_cache_key
GenerateCacheKey(tool_name, params) == <<tool_name, ":">> \o JsonDumps(params)

---------------------------------------------------------------------------
(* Values held by the cache and returned by handlers.  type is the Python  *)
(* type (dict, list, none); kind is what the consumers can tell apart:     *)
(*   data    - non-empty, carries the fields its consumers look for        *)
(*   partial - non-empty, lacks those fields                               *)
(*   empty   - {} or []                                                    *)
(*   error   - {"error": msg}, or [{"error": msg}] for a list              *)
(*   unser   - data holding values json.dumps cannot serialize             *)

Val(type, kind) == [type |-> type, kind |-> kind]
NoneVal == Val("none", "none")

\* Python truthiness of a value: None, {} and [] are false
Truthy(v) == v.kind \notin {"none", "empty"}

---------------------------------------------------------------------------
(* DataCache (utils/cache.py).  Each operator takes the store c and the    *)
(* value t of time.time() and returns the new store with the result.       *)

EmptyCache == [k \in {} |-> [value |-> NoneVal, expiry |-> 0]]

Without(c, key) == [k \in (DOMAIN c) \ {key} |-> c[k]]

With(c, key, entry) == [k \in (DOMAIN c) \cup {key} |-> IF k = key THEN entry ELSE c[k]]

\* ttl argument of set(): None (use the default) or a number of seconds
NoTtl == [given |-> FALSE, secs |-> 0]
Ttl(n) == [given |-> TRUE, secs |-> n]

\* mutant: the expired entry is reported absent but left in the store
CacheGetKeepsExpired(c, key, t) ==
    IF key \notin DOMAIN c THEN [cache |-> c, value |-> NoneVal]
    ELSE IF c[key].expiry # 0 /\ t > c[key].expiry THEN [cache |-> c, value |-> NoneVal]
    ELSE [cache |-> c, value |-> c[key].value]

\* DataCache.get
CacheGet(c, key, t) ==
    IF key \notin DOMAIN c THEN [cache |-> c, value |-> NoneVal]
    ELSE IF c[key].expiry # 0 /\ t > c[key].expiry
         THEN [cache |-> Without(c, key), value |-> NoneVal]
         ELSE [cache |-> c, value |-> c[key].value]

\* mutant: an existing later expiry is kept
CacheSetKeepsLaterExpiry(c, key, value, ttl, t) ==
    LET e == t + (IF ttl.given THEN ttl.secs ELSE DefaultTtl)
    IN  With(c, key, [value |-> value,
                      expiry |-> IF key \in DOMAIN c /\ c[key].expiry > e
                                 THEN c[key].expiry ELSE e])

\* DataCache.set
CacheSet(c, key, value, ttl, t) ==
    With(c, key, [value |-> value,
                  expiry |-> t + (IF ttl.given THEN ttl.secs ELSE DefaultTtl)])

\* DataCache.delete
CacheDelete(c, key) ==
    IF key \in DOMAIN c THEN [cache |-> Without(c, key), ret |-> TRUE]
    ELSE [cache |-> c, ret |-> FALSE]

\* DataCache.clear
CacheClear(c) == EmptyCache

\* mutant: the sweep also takes the entries expiring at this very instant
CacheCleanupInclusive(c, t) ==
    LET expired_keys == {k \in DOMAIN c : t >= c[k].expiry}
    IN  [cache |-> [k \in (DOMAIN c) \ expired_keys |-> c[k]],
         removed |-> expired_keys,
         ret |-> Cardinality(expired_keys)]

\* DataCache.cleanup
CacheCleanup(c, t) ==
    LET expired_keys == {k \in DOMAIN c : t > c[k].expiry}
    IN  [cache |-> [k \in (DOMAIN c) \ expired_keys |-> c[k]],
         removed |-> expired_keys,
         ret |-> Cardinality(expired_keys)]

---------------------------------------------------------------------------
(* The market-data adapter (adapters/akshare_adapter.py).  Every method    *)
(* catches all exceptions and returns an error value instead; what the     *)
(* provider returns is not under the server's control, so each operator    *)
(* is the set of values one call can return.  Price rows are the records   *)
(* of the provider's frame, whose date column holds date objects that      *)
(* json.dumps rejects: the "unser" outcome.                                *)

ReportTypes == {"balance", "income", "cashflow", "all"}

\* AKShareAdapter.get_stock_info: _standardize_symbol raises on a symbol
\* that is not a string, which the method turns into an error result
AdapterGetStockInfo(symbol) ==
    IF symbol.t # "str" THEN {Val("dict", "error")}
    ELSE {Val("dict", "data"), Val("dict", "partial"), Val("dict", "empty"),
          Val("dict", "error")}

\* AKShareAdapter.get_stock_price: a list of rows, [] or [{"error": msg}]
AdapterGetStockPrice(symbol) ==
    IF symbol.t # "str" THEN {Val("list", "error")}
    ELSE {Val("list", "data"), Val("list", "partial"), Val("list", "empty"),
          Val("list", "error"), Val("list", "unser")}

\* AKShareAdapter.get_financial_report: {} when report_type selects nothing
AdapterGetFinancialReport(symbol, report_type) ==
    IF symbol.t # "str" THEN {Val("dict", "error")}
    ELSE IF report_type.t = "str" /\ report_type.text \in ReportTypes
         THEN {Val("dict", "data"), Val("dict", "error")}
         ELSE {Val("dict", "empty")}

\* AKShareAdapter.get_industry_analysis: the result always has "industry"
AdapterGetIndustryAnalysis(industry) ==
    {Val("dict", "data"), Val("dict", "error")}

---------------------------------------------------------------------------
(* FinanceMCPServer (server.py) *)

Tools == {"get_stock_info", "get_stock_price", "get_financial_report",
          "calc_technical_indicators", "get_industry_analysis", "analyze_financials"}

\* mutant: every tool gets the one-hour fallback
GetTtlOneHour(tool_name) == TtlFallback

\* FinanceMCPServer._get_ttl_for_tool
GetTtlForTool(tool_name) ==
    CASE tool_name = "get_stock_info" -> TtlStockInfo
      [] tool_name = "get_stock_price" -> TtlStockPrice
      [] tool_name = "get_financial_report" -> TtlFinancialReport
      [] tool_name = "calc_technical_indicators" -> TtlTechnical
      [] tool_name = "get_industry_analysis" -> TtlIndustry
      [] OTHER -> TtlFallback

\* What a handler hands back: the store after it, its return value (or that
\* it raised), the adapter calls it made and the keys it looked up.
Returned(c, ret, calls, reads) ==
    [cache |-> c, ret |-> ret, raised |-> FALSE, calls |-> calls, reads |-> reads]
\* mutant: a handler that raises leaves an empty store behind
RaisedClearsCache(c, calls, reads) ==
    [cache |-> EmptyCache, ret |-> NoneVal, raised |-> TRUE, calls |-> calls,
     reads |-> reads]

Raised(c, calls, reads) ==
    [cache |-> c, ret |-> NoneVal, raised |-> TRUE, calls |-> calls, reads |-> reads]

\* The element of a one-element set.  A local of the code is bound as
\* The({body : x \in {value}}), which computes value once however often
\* body reads x.
The(S) == CHOOSE r \in S : TRUE

\* mutant: a cached error is not served
CacheHitUnlessError(cached_data) == Truthy(cached_data) /\ cached_data.kind # "error"

\* `if cached_data:` in every handler
CacheHit(cached_data) == Truthy(cached_data)

\* The body shared by the four fetching handlers: look the key up, return a
\* hit, otherwise store and return what the adapter returned (o).
CachedFetch(c, t, tool_name, params, o) ==
    IF ~IsMap(params) THEN Raised(c, 0, {})
    ELSE The({The({
             IF CacheHit(g.value) THEN Returned(g.cache, g.value, 0, {cache_key})
             ELSE Returned(CacheSet(g.cache, cache_key, o, Ttl(GetTtlForTool(tool_name)), t),
                           o, 1, {cache_key})
           : g \in {CacheGet(c, cache_key, t)}})
           : cache_key \in {GenerateCacheKey(tool_name, params)}})

\* FinanceMCPServer._handle_get_stock_info
HandleGetStockInfo(c, t, params, o) == CachedFetch(c, t, "get_stock_info", params, o)

\* FinanceMCPServer._handle_get_stock_price
HandleGetStockPrice(c, t, params, o) == CachedFetch(c, t, "get_stock_price", params, o)

\* FinanceMCPServer._handle_get_financial_report
HandleGetFinancialReport(c, t, params, o) ==
    CachedFetch(c, t, "get_financial_report", params, o)

\* FinanceMCPServer._handle_get_industry_analysis
HandleGetIndustryAnalysis(c, t, params, o) ==
    CachedFetch(c, t, "get_industry_analysis", params, o)

DefaultIndicators == Atom("list", "[\"MA\", \"MACD\", \"RSI\"]")

\* TechnicalAnalysisEngine.process_indicators as the handler sees it: a
\* top-level error when the columns do not resolve (the rows of an adapter
\* error have the single column "error"), a TypeError when the indicator
\* list cannot be iterated, the indicator series otherwise.
ProcessIndicators(price_data, indicators) ==
    IF price_data.kind \in {"error", "partial"}
    THEN [raised |-> FALSE, ret |-> Val("dict", "error")]
    ELSE IF ~Iterable(indicators) THEN [raised |-> TRUE, ret |-> NoneVal]
    ELSE [raised |-> FALSE, ret |-> Val("dict", "indicators")]

\* mutant: the prices are fetched as a get_stock_price request would
PriceThroughCache(c, t, params, o) ==
    HandleGetStockPrice(c, t,
        Map(<<Pair("symbol", DictGet(params, "symbol", JsonNull)),
              Pair("period", DictGet(params, "period", Str("daily")))>>), o)

\* self.adapter.get_stock_price(symbol, period) in the handler below
PriceFromAdapter(c, t, params, o) == Returned(c, o, 1, {})

\* FinanceMCPServer._handle_calc_technical_indicators
HandleCalcTechnicalIndicators(c, t, params, o) ==
    IF ~IsMap(params) THEN Raised(c, 0, {})
    ELSE The({The({The({
             LET indicators == DictGet(params, "indicators", DefaultIndicators)
                 price_data == fetch.ret
                 result == ProcessIndicators(price_data, indicators)
                 reads == {cache_key} \cup fetch.reads
             IN  IF CacheHit(g.value) THEN Returned(g.cache, g.value, 0, {cache_key})
                 ELSE IF ~Truthy(price_data)
                         \/ (price_data.type = "dict" /\ price_data.kind = "error")
                      THEN Returned(fetch.cache, Val("dict", "error"), fetch.calls, reads)
                 ELSE IF result.raised THEN Raised(fetch.cache, fetch.calls, reads)
                 ELSE Returned(CacheSet(fetch.cache, cache_key, result.ret,
                                        Ttl(GetTtlForTool("calc_technical_indicators")), t),
                               result.ret, fetch.calls, reads)
           : fetch \in {PriceFromAdapter(g.cache, t, params, o)}})
           : g \in {CacheGet(c, cache_key, t)}})
           : cache_key \in {GenerateCacheKey("calc_technical_indicators", params)}})

\* mutant: the market category is added whatever came in
AnalyzeAlwaysWithMarket(financial_data, has_price, has_shares) ==
    IF financial_data.kind = "partial" THEN Val("dict", "error")
    ELSE Val("dict", "analysis_market")

\* FundamentalAnalysisEngine.analyze_financial_statements as the handler
\* sees it: an error when a statement is missing, otherwise the four ratio
\* categories, with market_ratios when a price and a share count came in.
AnalyzeFinancialStatements(financial_data, has_price, has_shares) ==
    IF financial_data.kind = "partial" THEN Val("dict", "error")
    ELSE IF has_price /\ has_shares THEN Val("dict", "analysis_market")
    ELSE Val("dict", "analysis")

\* FinanceMCPServer._handle_analyze_financials; o holds what the adapter
\* returns to each of the three sub-calls, should they miss.
HandleAnalyzeFinancials(c, t, params, o) ==
    IF ~IsMap(params) THEN Raised(c, 0, {})
    ELSE The({The({The({The({The({
             LET include_market_ratios ==
                     JsonTruthy(DictGet(params, "include_market_ratios", JsonFalse))
                 info_ok == Truthy(info.ret) /\ info.ret.kind # "error"
                 has_price == info_ok /\ price.ret.kind \in {"data", "unser"}
                 has_shares == info_ok /\ info.ret.kind \in {"data", "unser"}
                 after == IF ~include_market_ratios THEN fin
                          ELSE IF ~info_ok THEN info
                          ELSE price
                 calls == fin.calls
                          + (IF include_market_ratios THEN info.calls ELSE 0)
                          + (IF include_market_ratios /\ info_ok THEN price.calls ELSE 0)
                 reads == {cache_key} \cup fin.reads
                          \cup (IF include_market_ratios THEN info.reads ELSE {})
                          \cup (IF include_market_ratios /\ info_ok
                                THEN price.reads ELSE {})
                 analysis_result ==
                     AnalyzeFinancialStatements(fin.ret,
                         include_market_ratios /\ has_price,
                         include_market_ratios /\ has_shares)
             IN  IF CacheHit(g.value) THEN Returned(g.cache, g.value, 0, {cache_key})
                 ELSE IF ~Truthy(fin.ret) \/ fin.ret.kind = "error"
                      THEN Returned(fin.cache, Val("dict", "error"), fin.calls,
                                    {cache_key} \cup fin.reads)
                 ELSE Returned(CacheSet(after.cache, cache_key, analysis_result,
                                        Ttl(GetTtlForTool("get_financial_report")), t),
                               analysis_result, calls, reads)
           : price \in {HandleGetStockPrice(info.cache, t,
                            Map(<<Pair("symbol", DictGet(params, "symbol", JsonNull)),
                                  Pair("period", Str("daily"))>>), o.price)}})
           : info \in {HandleGetStockInfo(fin.cache, t,
                           Map(<<Pair("symbol", DictGet(params, "symbol", JsonNull))>>),
                           o.info)}})
           : fin \in {HandleGetFinancialReport(g.cache, t,
                          Map(<<Pair("symbol", DictGet(params, "symbol", JsonNull)),
                                Pair("report_type", Str("all")),
                                Pair("periods", Num("4"))>>), o.fin)}})
           : g \in {CacheGet(c, cache_key, t)}})
           : cache_key \in {GenerateCacheKey("analyze_financials", params)}})

\* self.handlers[tool_name](params)
CallHandler(c, t, tool_name, params, o) ==
    CASE tool_name = "get_stock_info" -> HandleGetStockInfo(c, t, params, o.info)
      [] tool_name = "get_stock_price" -> HandleGetStockPrice(c, t, params, o.price)
      [] tool_name = "get_financial_report" -> HandleGetFinancialReport(c, t, params, o.fin)
      [] tool_name = "calc_technical_indicators" ->
             HandleCalcTechnicalIndicators(c, t, params, o.price)
      [] tool_name = "get_industry_analysis" ->
             HandleGetIndustryAnalysis(c, t, params, o.industry)
      [] tool_name = "analyze_financials" -> HandleAnalyzeFinancials(c, t, params, o)

\* json.dumps(result) succeeds
Serializable(v) == v.kind # "unser"

(* Requests: the string handed to handle_request, by what json.loads makes *)
(* of it.  An absent id or name reads as null, absent parameters as {}.    *)

NoRequest == [kind |-> "none", id |-> JsonNull, name |-> JsonNull, parameters |-> JsonNull]
BadJson == [kind |-> "badjson", id |-> JsonNull, name |-> JsonNull, parameters |-> JsonNull]
NonObject == [kind |-> "nonobject", id |-> JsonNull, name |-> JsonNull,
              parameters |-> JsonNull]
Request(id, name, parameters) ==
    [kind |-> "object", id |-> id, name |-> name, parameters |-> parameters]

NoResponse == [none |-> TRUE]
Success(id, result) == [id |-> id, result |-> result]
Error(id, message, code) == [id |-> id, error |-> [message |-> message, code |-> code]]
ErrorNoId(message, code) == [error |-> [message |-> message, code |-> code]]

Answered(c, resp, calls, handler, reads) ==
    [cache |-> c, response |-> resp, calls |-> calls, handler |-> handler, reads |-> reads]

\* the exception leaves handle_request
Escaped(exc) == [raised |-> exc]

\* mutant: only the JSON decode error is caught
OuterExceptDecodeErrorOnly(exc) ==
    IF exc = "JSONDecodeError" THEN ErrorNoId("Invalid JSON", "INVALID_JSON")
    ELSE Escaped(exc)

\* the except clauses of the outer try of handle_request
OuterExcept(exc) ==
    IF exc = "JSONDecodeError" THEN ErrorNoId("Invalid JSON", "INVALID_JSON")
    ELSE ErrorNoId("Unexpected error", "INTERNAL_ERROR")

\* the except clause around the handler call and the serialization of its result
InnerExcept(request_id) == Error(request_id, "Error processing request", "PROCESSING_ERROR")

\* FinanceMCPServer.handle_request
HandleRequestResult(c, t, req, o) ==
    IF req.kind = "badjson"          \* json.loads raises
    THEN Answered(c, OuterExcept("JSONDecodeError"), 0, "none", {})
    ELSE IF req.kind = "nonobject"   \* request.get raises
    THEN Answered(c, OuterExcept("AttributeError"), 0, "none", {})
    ELSE IF ~Hashable(req.name)      \* `tool_name not in self.handlers` raises
    THEN Answered(c, OuterExcept("TypeError"), 0, "none", {})
    ELSE IF ~(req.name.t = "str" /\ req.name.text \in Tools)
    THEN Answered(c, Error(req.id, "Unknown tool", "UNKNOWN_TOOL"), 0, "none", {})
    ELSE The({IF h.raised \/ ~Serializable(h.ret)
              THEN Answered(h.cache, InnerExcept(req.id), h.calls, req.name.text, h.reads)
              ELSE Answered(h.cache, Success(req.id, h.ret), h.calls, req.name.text, h.reads)
            : h \in {CallHandler(c, t, req.name.text, req.parameters, o)}})


---------------------------------------------------------------------------
(* The cache driven directly through its public methods. *)

CacheKeys == {<<"k1">>, <<"k2">>}
CacheValues == {Val("dict", "data"), Val("dict", "empty")}
CacheTtls == {NoTtl, Ttl(0), Ttl(1)}
CacheTickSet == {1, DefaultTtl}

NoEntry == [value |-> NoneVal, expiry |-> 0]

NoOp == [op |-> "none", key |-> <<>>, value |-> NoneVal, ttl |-> NoTtl, seq |-> 0,
         found |-> FALSE, old |-> NoEntry,
         retBool |-> FALSE, retCount |-> 0, removed |-> {}]

\* The record of a call: the method, its arguments (key, ttl, and value for
\* set), whether an entry was stored under the key before it and which,
\* and the results (value for get, retBool for delete, retCount and the
\* removed keys for cleanup).  seq alternates from one call to the next.
Op(name, key, value, ttl, retBool, retCount, removed) ==
    [op |-> name, key |-> key, value |-> value, ttl |-> ttl,
     seq |-> 1 - lastOp.seq,
     found |-> key \in DOMAIN cache,
     old |-> IF key \in DOMAIN cache THEN cache[key] ELSE NoEntry,
     retBool |-> retBool, retCount |-> retCount, removed |-> removed]

NoKeyInput == [name1 |-> "", params1 |-> JsonNull, name2 |-> "", params2 |-> JsonNull]

NoTechInput == [columns |-> {}, indicators |-> <<>>]
NoFinInput == [income |-> <<>>, balance |-> <<>>, price |-> <<>>, shares |-> <<>>]
NoOutput == [none |-> TRUE]
NoSeriesInput == [none |-> TRUE]
NoTools == [none |-> TRUE]
NoClient == [none |-> TRUE]
NoAdvice == [none |-> TRUE]

\* the loop before its first readline()
LoopStart == [pc |-> "read", line |-> NoRequest, eof |-> FALSE, read |-> 0,
              written |-> <<>>, failed |-> {}]

\* a server just constructed: an empty cache, nothing handled yet
ServerInit ==
    /\ cache = EmptyCache
    /\ now = StartTime
    /\ nticks = 0
    /\ lastOp = NoOp
    /\ purged = {}
    /\ response = NoResponse
    /\ lastReq = NoRequest
    /\ lastTime = 0
    /\ adapterCalls = 0
    /\ handlerRan = "none"
    /\ cacheReads = {}
    /\ reqCount = 0
    /\ loop = LoopStart

KeyIdle == keyIn = NoKeyInput /\ keyOut = <<>>
TechIdle == techIn = NoTechInput /\ techOut = NoOutput
FinIdle == finIn = NoFinInput /\ finOut = NoOutput
SeriesIdle == seriesIn = NoSeriesInput /\ seriesOut = NoOutput
ClientIdle == tools = NoTools /\ client = NoClient /\ advice = NoAdvice

Init == ServerInit /\ KeyIdle /\ TechIdle /\ FinIdle /\ SeriesIdle /\ ClientIdle

\* time passes between two operations
Tick(d) ==
    /\ nticks < MaxTicks
    /\ now' = now + d
    /\ nticks' = nticks + 1
    /\ UNCHANGED <<cache, lastOp, purged, serverVars, keyVars, engineVars, loop, clientVars>>

Get(key) ==
    LET g == CacheGet(cache, key, now)
    IN  /\ cache' = g.cache
        /\ lastOp' = Op("get", key, g.value, NoTtl, FALSE, 0, {})
        /\ purged' = IF key \in DOMAIN cache /\ key \notin DOMAIN g.cache
                     THEN purged \cup {key} ELSE purged
        /\ UNCHANGED <<now, nticks, serverVars, keyVars, engineVars, loop, clientVars>>

Set(key, value, ttl) ==
    /\ cache' = CacheSet(cache, key, value, ttl, now)
    /\ lastOp' = Op("set", key, value, ttl, FALSE, 0, {})
    /\ purged' = purged \ {key}
    /\ UNCHANGED <<now, nticks, serverVars, keyVars, engineVars, loop, clientVars>>

Delete(key) ==
    LET d == CacheDelete(cache, key)
    IN  /\ cache' = d.cache
        /\ lastOp' = Op("delete", key, NoneVal, NoTtl, d.ret, 0, {})
        /\ UNCHANGED <<now, nticks, purged, serverVars, keyVars, engineVars, loop, clientVars>>

Clear ==
    /\ cache' = CacheClear(cache)
    /\ lastOp' = Op("clear", <<>>, NoneVal, NoTtl, FALSE, 0, {})
    /\ UNCHANGED <<now, nticks, purged, serverVars, keyVars, engineVars, loop, clientVars>>

Cleanup ==
    LET r == CacheCleanup(cache, now)
    IN  /\ cache' = r.cache
        /\ lastOp' = Op("cleanup", <<>>, NoneVal, NoTtl, FALSE, r.ret, r.removed)
        /\ UNCHANGED <<now, nticks, purged, serverVars, keyVars, engineVars, loop, clientVars>>

CacheNext ==
    \/ \E d \in CacheTickSet : Tick(d)
    \/ \E k \in CacheKeys : Get(k)
    \/ \E k \in CacheKeys, v \in CacheValues, ttl \in CacheTtls : Set(k, v, ttl)
    \/ \E k \in CacheKeys : Delete(k)
    \/ Clear
    \/ Cleanup

CacheSpec == Init /\ [][CacheNext]_vars

---------------------------------------------------------------------------
(* The server answering requests one after the other. *)

ParamsSymbol == Map(<<Pair("symbol", Str("A"))>>)
ParamsMarketRatios ==
    Map(<<Pair("symbol", Str("A")), Pair("include_market_ratios", JsonTrue)>>)
ParamsBadIndicators == Map(<<Pair("symbol", Str("A")), Pair("indicators", Num("5"))>>)
ParamsReport ==
    Map(<<Pair("symbol", Str("A")), Pair("report_type", Str("all")),
          Pair("periods", Num("4"))>>)

ParamsDaily == Map(<<Pair("symbol", Str("A")), Pair("period", Str("daily"))>>)

\* parameters: null stands for every value that is not a mapping
ParamsFor(tool_name) ==
    CASE tool_name = "get_stock_info" -> {ParamsSymbol, JsonNull}
      [] tool_name = "get_stock_price" -> {ParamsDaily}
      [] tool_name = "get_financial_report" -> {ParamsReport, ParamsSymbol}
      [] tool_name = "calc_technical_indicators" ->
             {ParamsSymbol, ParamsBadIndicators, JsonNull}
      [] tool_name = "analyze_financials" -> {ParamsSymbol, ParamsMarketRatios, JsonNull}
      [] OTHER -> {ParamsSymbol}

RequestIds == {Str("1")}

Requests ==
    {BadJson, NonObject}
    \cup {Request(id, name, ParamsSymbol) :
            id \in RequestIds, name \in {Atom("list", "[]"), JsonNull, Str("no_such_tool")}}
    \cup UNION {{Request(id, Str(tool), p) : id \in RequestIds, p \in ParamsFor(tool)} :
                  tool \in Tools}

\* the time between two requests: up to the expiry of each TTL class, and past all
ElapseSet == {TtlStockPrice, TtlStockInfo, TtlFinancialReport, TtlFinancialReport + 1}

\* The values the adapter can return to the calls a request may lead to
\* (a single placeholder for the adapter methods the request cannot reach).
AdapterOutcomes(req) ==
    LET isTool == req.kind = "object" /\ req.name.t = "str" /\ req.name.text \in Tools
                  /\ IsMap(req.parameters)
        tool == req.name.text
        symbol == DictGet(req.parameters, "symbol", JsonNull)
        report_type == IF tool = "analyze_financials" THEN Str("all")
                       ELSE DictGet(req.parameters, "report_type", JsonNull)
        market == tool = "analyze_financials"
                  /\ JsonTruthy(DictGet(req.parameters, "include_market_ratios", JsonFalse))
        unused == {NoneVal}
    IN  [info : IF isTool /\ (tool = "get_stock_info" \/ market)
                THEN AdapterGetStockInfo(symbol) ELSE unused,
         price : IF isTool /\ (tool \in {"get_stock_price", "calc_technical_indicators"}
                               \/ market)
                 THEN AdapterGetStockPrice(symbol) ELSE unused,
         fin : IF isTool /\ tool \in {"get_financial_report", "analyze_financials"}
               THEN AdapterGetFinancialReport(symbol, report_type) ELSE unused,
         industry : IF isTool /\ tool = "get_industry_analysis"
                    THEN AdapterGetIndustryAnalysis(DictGet(req.parameters, "industry",
                                                            JsonNull))
                    ELSE unused]

\* handle_request(req) runs to its return
Handle(req) ==
    /\ \E o \in AdapterOutcomes(req) :
          \E a \in {HandleRequestResult(cache, now, req, o)} :
              /\ cache' = a.cache
              /\ response' = a.response
              /\ adapterCalls' = a.calls
              /\ handlerRan' = a.handler
              /\ cacheReads' = a.reads
    /\ lastReq' = req
    /\ lastTime' = now
    /\ reqCount' = reqCount + 1
    /\ lastOp' = NoOp
    /\ purged' = purged \ DOMAIN cache'
    /\ UNCHANGED <<now, nticks, keyVars, engineVars, clientVars>>

\* one iteration of mcp_server_loop: a line is read and handle_request answers it
HandleRequest(req) ==
    /\ reqCount < MaxRequests
    /\ Handle(req)
    /\ UNCHANGED <<loop, clientVars>>

\* time passes, once, between two requests
Elapse(d) ==
    /\ 0 < reqCount /\ reqCount < MaxRequests
    /\ now = StartTime
    /\ now' = now + d
    /\ UNCHANGED <<cache, nticks, lastOp, purged, serverVars, keyVars, engineVars, loop, clientVars>>

Next ==
    \/ \E req \in Requests : HandleRequest(req)
    \/ \E d \in ElapseSet : Elapse(d)

Spec == Init /\ [][Next]_vars

---------------------------------------------------------------------------
(* mcp_server_loop step by step: readline(), handle_request(), print().    *)
(* loop.read counts the lines read; loop.written lists, in the order of    *)
(* the print() calls, the number of the line each response answers, and    *)
(* loop.failed the numbers of the lines answered with an error.            *)

EndOfInput == [kind |-> "eof", id |-> JsonNull, name |-> JsonNull, parameters |-> JsonNull]

\* `if not line: break`
AfterRead(line) == IF line = EndOfInput THEN "done" ELSE "handle"

\* mutant: the response is dropped and the next line is read
AfterHandleSkipsPrint(resp) == "read"

\* the response goes to print(); an exception goes to the except clause of
\* the loop, which logs it and continues with the next readline()
AfterHandle(resp) == IF "raised" \in DOMAIN resp THEN "read" ELSE "write"

LoopLines ==
    {BadJson,
     Request(Str("1"), Str("no_such_tool"), ParamsSymbol),
     Request(Str("1"), Str("get_stock_info"), ParamsSymbol),
     Request(Str("1"), Str("calc_technical_indicators"), ParamsBadIndicators)}

ReadLine(line) ==
    /\ loop.pc = "read"
    /\ line # EndOfInput => loop.read < MaxLines
    /\ loop' = [loop EXCEPT !.pc = AfterRead(line),
                            !.line = line,
                            !.eof = (line = EndOfInput),
                            !.read = IF line = EndOfInput THEN @ ELSE @ + 1]
    /\ UNCHANGED <<cacheVars, serverVars, keyVars, engineVars, clientVars>>

Dispatch ==
    /\ loop.pc = "handle"
    /\ Handle(loop.line)
    /\ loop' = [loop EXCEPT !.pc = AfterHandle(response'),
                            !.failed = IF "result" \in DOMAIN response'
                                       THEN @ ELSE @ \cup {loop.read}]

WriteResponse ==
    /\ loop.pc = "write"
    /\ loop' = [loop EXCEPT !.pc = "read", !.written = Append(@, loop.read)]
    /\ UNCHANGED <<cacheVars, serverVars, keyVars, engineVars, clientVars>>

LoopNext ==
    \/ \E line \in LoopLines \cup {EndOfInput} : ReadLine(line)
    \/ Dispatch
    \/ WriteResponse

LoopSpec == Init /\ [][LoopNext]_vars

---------------------------------------------------------------------------
(* _generate_cache_key applied to two (tool name, parameters) inputs.  The *)
(* parameter mappings are all insertion-ordered mappings over ParamKeys    *)
(* with at most MaxPairs key/value pairs in all, nested ones included.     *)

ParamKeys == {"a", "b"}
ParamScalars == {Num("1"), Num("2")}

\* number of key/value pairs in a JSON value, at every depth
RECURSIVE JsonSize(_)
JsonSize(j) ==
    IF ~IsMap(j) \/ j.items = <<>> THEN 0
    ELSE 1 + JsonSize(j.items[1].v) + JsonSize(Map(Tail(j.items)))

RECURSIVE MapsUpTo(_)
MapsUpTo(n) ==
    IF n = 0 THEN {Map(<<>>)}
    ELSE LET one == ParamScalars \cup MapsUpTo(n - 1)
             two == IF n >= 2 THEN ParamScalars \cup MapsUpTo(n - 2) ELSE {}
         IN  {Map(<<>>)}
             \cup {Map(<<Pair(k, v)>>) : k \in ParamKeys, v \in one}
             \cup {Map(<<Pair(q[1], q[2]), Pair(q[3], q[4])>>) :
                     q \in {r \in ParamKeys \X two \X ParamKeys \X two :
                              /\ r[1] # r[3]
                              /\ JsonSize(r[2]) + JsonSize(r[4]) + 2 <= n}}

\* two inputs of one tool, and two inputs of different tools
KeyInputs ==
    [name1 : {"get_stock_info"}, params1 : MapsUpTo(MaxPairs),
     name2 : {"get_stock_info"}, params2 : MapsUpTo(MaxPairs)]
    \cup [name1 : {"get_stock_info"}, params1 : MapsUpTo(MaxPairs - 1),
          name2 : {"get_stock_price"}, params2 : MapsUpTo(MaxPairs - 1)]

KeyInit ==
    /\ ServerInit /\ TechIdle /\ FinIdle /\ SeriesIdle /\ ClientIdle
    /\ keyIn \in KeyInputs
    /\ keyOut = <<>>

\* _generate_cache_key is applied to both inputs
DeriveKeys ==
    /\ keyOut = <<>>
    /\ keyOut' = <<GenerateCacheKey(keyIn.name1, keyIn.params1),
                   GenerateCacheKey(keyIn.name2, keyIn.params2)>>
    /\ UNCHANGED <<cacheVars, serverVars, keyIn, engineVars, loop, clientVars>>

KeyNext == DeriveKeys

KeySpec == KeyInit /\ [][KeyNext]_vars

---------------------------------------------------------------------------
(* TechnicalAnalysisEngine.process_indicators (engines/technical_engine.py) *)
(* applied to a frame and a list of indicator identifiers.  The frame is    *)
(* its set of column names over rows of numbers; the Chinese column names   *)
(* of the alias table are written in pinyin.  A computed indicator is the   *)
(* value "series".                                                          *)

\* required_cols, in the order of the dict
Concepts == <<"open", "high", "low", "close", "volume">>

RequiredCols ==
    [open |-> <<"open", "Open", "kaipan", "kaipanjia">>,
     high |-> <<"high", "High", "gao", "zuigaojia">>,
     low |-> <<"low", "Low", "di", "zuidijia">>,
     close |-> <<"close", "Close", "shoupan", "shoupanjia">>,
     volume |-> <<"volume", "Volume", "chengjiaoliang", "chengjiaoe">>]

\* the positions of the aliases of std_name that are columns of the frame
AliasHits(std_name, columns) ==
    {i \in 1..Len(RequiredCols[std_name]) : RequiredCols[std_name][i] \in columns}

\* the inner loop with its break: the first alias that is a column
FirstAlias(std_name, columns) ==
    RequiredCols[std_name][CHOOSE i \in AliasHits(std_name, columns) :
                               \A j \in AliasHits(std_name, columns) : i <= j]

\* column_mapping: column name -> standard name
ColumnMapping(columns) ==
    LET found == {c \in Range(Concepts) : AliasHits(c, columns) # {}}
    IN  [col \in {FirstAlias(c, columns) : c \in found} |->
            CHOOSE c \in found : FirstAlias(c, columns) = col]

\* mutant: all five columns are asked for
EnoughColumnsAllFive(column_mapping) == Cardinality(DOMAIN column_mapping) >= MinColumns + 1

\* the negation of the test len(column_mapping) < 4
EnoughColumns(column_mapping) == Cardinality(DOMAIN column_mapping) >= MinColumns

\* price_df.rename(columns=column_mapping): the columns of df
Rename(columns, column_mapping) ==
    {IF col \in DOMAIN column_mapping THEN column_mapping[col] ELSE col : col \in columns}

\* str.upper() on the identifiers of the alphabet
Upper(text) ==
    CASE text = "ma" -> "MA"
      [] text = "obv" -> "OBV"
      [] OTHER -> text

SeriesValue == [series |-> TRUE]
ErrorNote(msg) == [error |-> msg]

\* the columns each branch of the loop reads with df[...]
ColumnsRead(name) ==
    CASE name \in {"MA", "EMA", "MACD", "RSI", "BOLLINGER"} -> {"close"}
      [] name \in {"ATR", "STOCHASTIC"} -> {"high", "low", "close"}
      [] name = "OBV" -> {"close", "volume"}
      [] OTHER -> {}

Supported == {"MA", "EMA", "MACD", "RSI", "BOLLINGER", "ATR", "STOCHASTIC", "OBV"}

\* One pass of the loop body for indicator on the entries so far: the new
\* entries, or raised when the except clause itself fails on an unhashable
\* identifier.
IndicatorStep(entries, df, indicator) ==
    IF indicator.t # "str"
    THEN \* indicator.upper() raises AttributeError
         IF Hashable(indicator)
         THEN [entries |-> With(entries, indicator, ErrorNote("AttributeError"))]
         ELSE [raised |-> "TypeError"]
    ELSE LET name == Upper(indicator.text)
         IN  IF name \notin Supported
             THEN \* no branch matches and nothing is raised
                  [entries |-> entries]
             ELSE IF name = "OBV" /\ "volume" \notin df
             THEN [entries |-> With(entries, Str("OBV"),
                                    ErrorNote("Volume data not available"))]
             ELSE IF ColumnsRead(name) \subseteq df
             THEN [entries |-> With(entries, Str(name), SeriesValue)]
             ELSE \* df[...] raises KeyError
                  [entries |-> With(entries, indicator, ErrorNote("KeyError"))]

RECURSIVE IndicatorLoop(_, _, _, _)
IndicatorLoop(entries, df, indicators, i) ==
    IF i > Len(indicators) THEN [entries |-> entries]
    ELSE LET step == The({IndicatorStep(entries, df, indicators[i])})
         IN  IF "raised" \in DOMAIN step THEN step
             ELSE IndicatorLoop(step.entries, df, indicators, i + 1)

\* process_indicators(price_df, indicators): the returned dict, or raised
process_indicators(columns, indicators) ==
    LET column_mapping == ColumnMapping(columns)
    IN  IF ~EnoughColumns(column_mapping)
        THEN [error |-> "Price data missing required columns (OHLC)"]
        ELSE LET done == The({IndicatorLoop(<<>>, Rename(columns, column_mapping),
                                            indicators, 1)})
             IN  IF "raised" \in DOMAIN done THEN done
                 ELSE [indicators |-> done.entries, dates |-> "range"]

\* the column names a frame is made of
ColumnNames == {"open", "Open", "OPEN", "kaipan", "high", "low", "close", "volume"}

\* the identifiers a request can list: names of indicators, in either case,
\* names the tool schema lists and the engine does not know, and JSON values
\* that are not strings
Identifiers ==
    {Str("MA"), Str("ma"), Str("ATR"), Str("OBV"), Str("KDJ"), Str("BOLL"),
     Num("5"), Atom("list", "[]")}

RECURSIVE SeqsUpTo(_, _)
SeqsUpTo(S, n) ==
    IF n = 0 THEN {<<>>}
    ELSE LET shorter == SeqsUpTo(S, n - 1)
         IN  shorter \cup {Append(q, x) : q \in shorter, x \in S}

TechInputs == [columns : SUBSET ColumnNames, indicators : SeqsUpTo(Identifiers, MaxIndicators)]

TechInit ==
    /\ ServerInit /\ KeyIdle /\ FinIdle /\ SeriesIdle /\ ClientIdle
    /\ techIn \in TechInputs
    /\ techOut = NoOutput

\* process_indicators is applied to the input
Calculate ==
    /\ techOut = NoOutput
    /\ techOut' = process_indicators(techIn.columns, techIn.indicators)
    /\ UNCHANGED <<cacheVars, serverVars, keyVars, techIn, finIn, finOut, seriesVars, loop, clientVars>>

TechNext == Calculate

TechSpec == TechInit /\ [][TechNext]_vars

---------------------------------------------------------------------------
(* FundamentalAnalysisEngine (engines/fundamental_engine.py) applied to one *)
(* set of statements.  A statement period is a function from line items to  *)
(* Python values: a number n/d, None or a string.  The line items are named *)
(* in English for the Chinese keys of the source:                           *)
(*   total_revenue (l.30, first key), operating_revenue (l.30, second key), *)
(*   net_income (l.31), gross_profit (l.32), cogs (l.33),                   *)
(*   operating_income (l.35), current_assets (l.63),                        *)
(*   current_liabilities (l.64), cash (l.65), short_term_investments (l.66),*)
(*   accounts_receivable (l.67), total_assets (l.96),                       *)
(*   total_liabilities (l.97), shareholders_equity (l.98),                  *)
(*   total_profit (l.99, first key), financial_expense (l.99, second key),  *)
(*   interest_expense (l.100), inventory (l.142), owners_equity (l.182).    *)
(* A rounded ratio is a number of hundredths.                               *)

Amt(k) == [n |-> k, d |-> 1]
PyNone == [none |-> TRUE]
PyStr == [str |-> "x"]
\* an exception was raised while the value was computed
Raise == [raised |-> TRUE]
\* no period: the None passed for prev_balance_data
NoPeriod == PyNone
\* a period without line items: {}
EmptyPeriod == [i \in {} |-> PyNone]

IsNum(v) == "n" \in DOMAIN v

\* bool(v)
PyTruthy(v) ==
    IF IsNum(v) THEN v.n # 0
    ELSE "str" \in DOMAIN v

\* a + b, a - b, a * b, a / b with the TypeError and ZeroDivisionError of
\* the operands the engine can meet
Add(a, b) ==
    IF IsNum(a) /\ IsNum(b) THEN [n |-> a.n * b.d + b.n * a.d, d |-> a.d * b.d] ELSE Raise
Sub(a, b) ==
    IF IsNum(a) /\ IsNum(b) THEN [n |-> a.n * b.d - b.n * a.d, d |-> a.d * b.d] ELSE Raise
Mul(a, b) ==
    IF IsNum(a) /\ IsNum(b) THEN [n |-> a.n * b.n, d |-> a.d * b.d] ELSE Raise
Div(a, b) ==
    IF IsNum(a) /\ IsNum(b) /\ b.n # 0
    THEN IF b.n > 0 THEN [n |-> a.n * b.d, d |-> a.d * b.n]
         ELSE [n |-> -(a.n * b.d), d |-> a.d * (-b.n)]
    ELSE Raise

\* round(v, 2): the nearest hundredth, ties to the even one
Round2(v) ==
    IF ~IsNum(v) THEN Raise
    ELSE LET num == 100 * v.n
             q == num \div v.d
             r == num % v.d
         IN  [n |-> IF 2 * r < v.d THEN q
                    ELSE IF 2 * r > v.d THEN q + 1
                    ELSE IF q % 2 = 0 THEN q ELSE q + 1,
              d |-> 100]

\* round(v * 100, 2)
Percent(v) == Round2(Mul(v, Amt(100)))

\* data.get(item, default)
ItemGet(data, item, default) == IF item \in DOMAIN data THEN data[item] ELSE default

\* a or b
PyOr(a, b) == IF PyTruthy(a) THEN a ELSE b

\* mutant: the division without its guard
UnguardedRatio(n, d) == Div(n, d)

\* (n / d) if d else 0
GuardedRatio(n, d) == IF PyTruthy(d) THEN Div(n, d) ELSE Amt(0)

CategoryError(name) == [error |-> name]

\* mutant: the error is added to the ratios that did not raise
CategoryKeepsRatios(name, evaluated, ratios) ==
    IF Raise \in evaluated \/ \E f \in DOMAIN ratios : ratios[f] = Raise
    THEN [f \in {g \in DOMAIN ratios : ratios[g] # Raise} \cup {"error"} |->
             IF f = "error" THEN name ELSE ratios[f]]
    ELSE ratios

\* the dict a category returns, or its error when an evaluation raised
Category(name, evaluated, ratios) ==
    IF Raise \in evaluated \/ \E f \in DOMAIN ratios : ratios[f] = Raise
    THEN CategoryError(name)
    ELSE ratios

calculate_profitability_ratios(income_data) ==
    LET total_revenue == PyOr(ItemGet(income_data, "total_revenue", Amt(0)),
                              ItemGet(income_data, "operating_revenue", Amt(0)))
        net_income == ItemGet(income_data, "net_income", Amt(0))
        gross_profit == PyOr(ItemGet(income_data, "gross_profit", Amt(0)),
                             Sub(total_revenue, ItemGet(income_data, "cogs", Amt(0))))
        operating_income == ItemGet(income_data, "operating_income", Amt(0))
    IN  Category("profitability", {gross_profit},
                 [gross_margin |-> Percent(GuardedRatio(gross_profit, total_revenue)),
                  operating_margin |-> Percent(GuardedRatio(operating_income, total_revenue)),
                  net_margin |-> Percent(GuardedRatio(net_income, total_revenue))])

calculate_liquidity_ratios(balance_data) ==
    LET current_assets == ItemGet(balance_data, "current_assets", Amt(0))
        current_liabilities == ItemGet(balance_data, "current_liabilities", Amt(0))
        cash == ItemGet(balance_data, "cash", Amt(0))
        short_term_investments ==
            PyOr(ItemGet(balance_data, "short_term_investments", Amt(0)), Amt(0))
        accounts_receivable ==
            PyOr(ItemGet(balance_data, "accounts_receivable", Amt(0)), Amt(0))
    IN  Category("liquidity", {},
                 [current_ratio |-> Round2(GuardedRatio(current_assets, current_liabilities)),
                  quick_ratio |->
                      Round2(GuardedRatio(Add(Add(cash, short_term_investments),
                                              accounts_receivable), current_liabilities)),
                  cash_ratio |->
                      Round2(GuardedRatio(Add(cash, short_term_investments),
                                          current_liabilities))])

calculate_solvency_ratios(balance_data, income_data) ==
    LET total_assets == ItemGet(balance_data, "total_assets", Amt(0))
        total_liabilities == ItemGet(balance_data, "total_liabilities", Amt(0))
        shareholders_equity == ItemGet(balance_data, "shareholders_equity", Amt(0))
        ebit == Add(ItemGet(income_data, "total_profit", Amt(0)),
                    ItemGet(income_data, "financial_expense", Amt(0)))
        interest_expense ==
            PyOr(ItemGet(income_data, "interest_expense", Amt(0)),
                 Div(ItemGet(income_data, "financial_expense", Amt(0)), Amt(2)))
    IN  Category("solvency", {ebit, interest_expense},
                 [debt_ratio |-> Round2(GuardedRatio(total_liabilities, total_assets)),
                  debt_to_equity |->
                      Round2(GuardedRatio(total_liabilities, shareholders_equity)),
                  interest_coverage |-> Round2(GuardedRatio(ebit, interest_expense))])

\* prev_balance_data is None (NoPeriod) or the previous period
calculate_efficiency_ratios(balance_data, income_data, prev_balance_data) ==
    LET total_assets == ItemGet(balance_data, "total_assets", Amt(0))
        total_revenue == PyOr(ItemGet(income_data, "total_revenue", Amt(0)),
                              ItemGet(income_data, "operating_revenue", Amt(0)))
        net_income == ItemGet(income_data, "net_income", Amt(0))
        avg_total_assets ==
            IF prev_balance_data # NoPeriod /\ DOMAIN prev_balance_data # {}
            THEN Div(Add(total_assets,
                         ItemGet(prev_balance_data, "total_assets", total_assets)), Amt(2))
            ELSE total_assets
        inventory == ItemGet(balance_data, "inventory", Amt(0))
        cogs == ItemGet(income_data, "cogs", Amt(0))
    IN  Category("efficiency", {avg_total_assets},
                 [inventory_turnover |-> Round2(GuardedRatio(cogs, inventory)),
                  asset_turnover |-> Round2(GuardedRatio(total_revenue, avg_total_assets)),
                  return_on_assets |-> Percent(GuardedRatio(net_income, avg_total_assets))])

calculate_market_ratios(income_data, balance_data, stock_price, shares_outstanding) ==
    LET net_income == ItemGet(income_data, "net_income", Amt(0))
        shareholders_equity == PyOr(ItemGet(balance_data, "owners_equity", Amt(0)),
                                    ItemGet(balance_data, "shareholders_equity", Amt(0)))
        eps == GuardedRatio(net_income, shares_outstanding)
        pe_ratio == GuardedRatio(stock_price, eps)
        book_value_per_share == GuardedRatio(shareholders_equity, shares_outstanding)
        pb_ratio == GuardedRatio(stock_price, book_value_per_share)
        market_cap == Mul(stock_price, shares_outstanding)
    IN  Category("market", {eps, pe_ratio, book_value_per_share, pb_ratio, market_cap},
                 [eps |-> Round2(eps),
                  pe_ratio |-> Round2(pe_ratio),
                  book_value_per_share |-> Round2(book_value_per_share),
                  pb_ratio |-> Round2(pb_ratio),
                  market_cap |-> market_cap])

\* analyze_financial_statements(balance_sheet, income_statement, cash_flow,
\* stock_price, shares_outstanding): the statements are lists of periods
analyze_financial_statements(balance_sheet, income_statement, stock_price, shares_outstanding) ==
    IF balance_sheet = <<>> \/ income_statement = <<>>
    THEN [error |-> "Missing required financial statements"]
    ELSE LET current_balance == balance_sheet[1]
             current_income == income_statement[1]
             prev_balance == IF Len(balance_sheet) > 1 THEN balance_sheet[2] ELSE NoPeriod
             analysis ==
                 [profitability_ratios |-> calculate_profitability_ratios(current_income),
                  liquidity_ratios |-> calculate_liquidity_ratios(current_balance),
                  solvency_ratios |->
                      calculate_solvency_ratios(current_balance, current_income),
                  efficiency_ratios |->
                      calculate_efficiency_ratios(current_balance, current_income,
                                                  prev_balance)]
         IN  IF stock_price # PyNone /\ shares_outstanding # PyNone
             THEN [f \in DOMAIN analysis \cup {"market_ratios"} |->
                      IF f = "market_ratios"
                      THEN calculate_market_ratios(current_income, current_balance,
                                                   stock_price, shares_outstanding)
                      ELSE analysis[f]]
             ELSE analysis

\* the values of a line item: None, a string, and the amounts up to MaxAmount
ItemValues == {PyNone, PyStr} \cup {Amt(k) : k \in 0..MaxAmount}

\* the periods that hold some of the given line items
Periods(items) ==
    UNION {[chosen -> ItemValues] : chosen \in SUBSET items}

\* the numerator of the margins, of the return on assets and of the
\* earnings per share: absent, None or an amount
NetIncomes == {EmptyPeriod} \cup {[i \in {"net_income"} |-> v] : v \in {PyNone, Amt(1)}}

\* a period made of two that hold different line items
Merge(p, q) == [i \in DOMAIN p \cup DOMAIN q |-> IF i \in DOMAIN p THEN p[i] ELSE q[i]]

IncomePeriods ==
    {Merge(p, q) : p \in Periods({"total_revenue", "financial_expense"}), q \in NetIncomes}

BalancePeriods == Periods({"current_liabilities", "total_assets", "shareholders_equity"})

\* the balance sheets: one period, or two with the total assets of the
\* previous one
BalanceSheets ==
    {<<b>> : b \in BalancePeriods}
    \cup {<<b, [i \in {"total_assets"} |-> Amt(1)]>> : b \in BalancePeriods}

\* the price and the share count the handler passes on: both floats, or None
Quotes == {<<PyNone, PyNone>>, <<Amt(1), PyNone>>, <<Amt(1), Amt(0)>>, <<Amt(1), Amt(1)>>}

FinInputs ==
    [income : {<<i>> : i \in IncomePeriods}, balance : BalanceSheets,
     price : {PyNone}, shares : {PyNone}]
    \cup {[income |-> <<i>>, balance |-> <<b>>, price |-> q[1], shares |-> q[2]] :
            i \in IncomePeriods, b \in BalancePeriods, q \in Quotes \ {<<PyNone, PyNone>>}}
    \cup {[income |-> <<>>, balance |-> <<EmptyPeriod>>, price |-> PyNone, shares |-> PyNone],
          [income |-> <<EmptyPeriod>>, balance |-> <<>>, price |-> PyNone, shares |-> PyNone]}

FinInit ==
    /\ ServerInit /\ KeyIdle /\ TechIdle /\ SeriesIdle /\ ClientIdle
    /\ finIn \in FinInputs
    /\ finOut = NoOutput

\* analyze_financial_statements is applied to the input
Analyze ==
    /\ finOut = NoOutput
    /\ finOut' = analyze_financial_statements(finIn.balance, finIn.income, finIn.price,
                                              finIn.shares)
    /\ UNCHANGED <<cacheVars, serverVars, keyVars, techIn, techOut, finIn, seriesVars, loop, clientVars>>

FinNext == Analyze

FinSpec == FinInit /\ [][FinNext]_vars

\* The engine applied to income periods that hold some of revenue, cost of
\* revenue and gross profit
ProfitInputs ==
    [income : {<<i>> : i \in Periods({"total_revenue", "cogs", "gross_profit"})},
     balance : {<<EmptyPeriod>>}, price : {PyNone}, shares : {PyNone}]

ProfitInit ==
    /\ ServerInit /\ KeyIdle /\ TechIdle /\ SeriesIdle /\ ClientIdle
    /\ finIn \in ProfitInputs
    /\ finOut = NoOutput

ProfitSpec == ProfitInit /\ [][FinNext]_vars

\* Either engine applied to one input of its own
EngineInit ==
    /\ ServerInit /\ KeyIdle /\ SeriesIdle /\ ClientIdle
    /\ techOut = NoOutput
    /\ finOut = NoOutput
    /\ \/ techIn \in TechInputs /\ finIn = NoFinInput
       \/ techIn = NoTechInput /\ finIn \in FinInputs

EngineNext ==
    \/ techIn # NoTechInput /\ Calculate
    \/ finIn # NoFinInput /\ Analyze

EngineSpec == EngineInit /\ [][EngineNext]_vars

---------------------------------------------------------------------------
(* The formulas of the MA, RSI and OBV branches of process_indicators on    *)
(* the rows of a frame whose columns passed the validation.  A column is a  *)
(* sequence of floats: a number n/d, NaN or +inf.  Row i of pandas is       *)
(* element i + 1 of the sequence.  The frame df is a record of its columns; *)
(* an entry that is a list in the result is the record [values |-> list].   *)

NaN == [nan |-> TRUE]
PosInf == [inf |-> TRUE]

\* series[lo] + ... + series[hi], NaN when one of them is
RECURSIVE WindowSum(_, _, _)
WindowSum(series, lo, hi) ==
    IF lo > hi THEN Amt(0)
    ELSE IF lo = hi THEN (IF IsNum(series[lo]) THEN series[lo] ELSE NaN)
    ELSE The({ IF IsNum(left) /\ IsNum(right) THEN Add(left, right) ELSE NaN :
               left \in {WindowSum(series, lo, (lo + hi) \div 2)},
               right \in {WindowSum(series, (lo + hi) \div 2 + 1, hi)} })

\* mutant: rolling(window, min_periods=1)
RollingMeanPartial(series, window) ==
    [i \in 1..Len(series) |->
        LET lo == IF i < window THEN 1 ELSE i - window + 1
            sum == The({WindowSum(series, lo, i)})
        IN  IF IsNum(sum) THEN Div(sum, Amt(i - lo + 1)) ELSE NaN]

\* series.rolling(window=window).mean(): NaN until the window is full
RollingMean(series, window) ==
    [i \in 1..Len(series) |->
        IF i < window THEN NaN
        ELSE LET sum == The({WindowSum(series, i - window + 1, i)})
             IN  IF IsNum(sum) THEN Div(sum, Amt(window)) ELSE NaN]

\* series.diff()
Diff(series) ==
    [i \in 1..Len(series) |-> IF i = 1 THEN NaN ELSE Sub(series[i], series[i - 1])]

\* delta.where(delta > 0, 0)
Gain(delta) ==
    [i \in 1..Len(delta) |-> IF IsNum(delta[i]) /\ delta[i].n > 0 THEN delta[i] ELSE Amt(0)]

\* -delta.where(delta < 0, 0)
Loss(delta) ==
    [i \in 1..Len(delta) |->
        IF IsNum(delta[i]) /\ delta[i].n < 0 THEN Sub(Amt(0), delta[i]) ELSE Amt(0)]

\* mutant: the division of Python numbers, which raises on a zero divisor
FloatDivRaises(a, b) == Div(a, b)

\* a / b on floats of a Series: a zero divisor gives inf or NaN and raises
\* nothing (the operands are never negative here)
FloatDiv(a, b) ==
    IF ~IsNum(a) \/ ~IsNum(b) THEN NaN
    ELSE IF b.n = 0 THEN (IF a.n = 0 THEN NaN ELSE PosInf)
    ELSE Div(a, b)

\* 100 - (100 / (1 + rs))
RsiValue(rs) ==
    IF rs = Raise THEN Raise
    ELSE IF rs = NaN THEN NaN
    ELSE IF rs = PosInf THEN Amt(100)
    ELSE Sub(Amt(100), Div(Amt(100), Add(Amt(1), rs)))

\* the entry of an indicator: its values, or the error note of the except
\* clause when an evaluation raised
Entry(values) ==
    IF \E i \in DOMAIN values : values[i] = Raise THEN ErrorNote("raised")
    ELSE [values |-> values]

\* the MA branch: MA5, MA10, MA20, MA60
MaEntry(close) ==
    [MA5 |-> RollingMean(close, 5), MA10 |-> RollingMean(close, 10),
     MA20 |-> RollingMean(close, 20), MA60 |-> RollingMean(close, 60)]

\* the RSI branch
RsiEntry(close) ==
    LET delta == Diff(close)
        avg_gain == RollingMean(Gain(delta), RsiWindow)
        avg_loss == RollingMean(Loss(delta), RsiWindow)
    IN  Entry([i \in 1..Len(close) |-> RsiValue(FloatDiv(avg_gain[i], avg_loss[i]))])

\* mutant: a zero change counts as a rise
SignOfRise(v) == IF ~IsNum(v) THEN NaN ELSE IF v.n < 0 THEN Amt(-1) ELSE Amt(1)

\* np.sign
Sign(v) ==
    IF ~IsNum(v) THEN NaN
    ELSE IF v.n > 0 THEN Amt(1) ELSE IF v.n < 0 THEN Amt(-1) ELSE Amt(0)

\* series.fillna(0)
FillNa(series) == [i \in 1..Len(series) |-> IF IsNum(series[i]) THEN series[i] ELSE Amt(0)]

\* series.cumsum()
CumSum(series) == [i \in 1..Len(series) |-> The({WindowSum(series, 1, i)})]

\* the OBV branch
ObvEntry(df) ==
    IF "volume" \notin DOMAIN df THEN ErrorNote("Volume data not available")
    ELSE LET delta == Diff(df.close)
         IN  Entry(CumSum(FillNa([i \in 1..Len(df.close) |->
                                     Mul(Sign(delta[i]), df.volume[i])])))

\* result["indicators"] for the indicators MA, RSI and OBV
IndicatorValues(df) ==
    [MA |-> MaEntry(df.close), RSI |-> RsiEntry(df.close), OBV |-> ObvEntry(df)]

Prices == {Amt(k) : k \in 1..MaxPrice}
Volumes == {Amt(1), Amt(3)}

\* the rows long enough to fill a window, and up to MaxExtra rows more
LongLengths == {w + k : w \in {5, 10, RsiWindow, 20, 60}, k \in 0..MaxExtra}

\* a long close column: constant, rising by 1 or 2 a row, rising by 1 and 2
\* in turn, or going up and down
LongCloses ==
    UNION {{[i \in 1..n |-> Amt(c.n + step * (i - 1))] : step \in 0..2, c \in Prices}
           \cup {[i \in 1..n |-> Amt(c.n + (3 * (i - 1)) \div 2)] : c \in Prices}
           \cup {[i \in 1..n |-> Amt(c.n + (i % 3))] : c \in Prices}
           : n \in LongLengths}

\* every short close column, with every volume column or none, and the long
\* close columns without volume
SeriesInputs ==
    UNION {[close : [1..n -> Prices], volume : [1..n -> Volumes]]
           \cup [close : [1..n -> Prices]]
           : n \in 0..MaxRows}
    \cup [close : LongCloses]

SeriesInit ==
    /\ ServerInit /\ KeyIdle /\ TechIdle /\ FinIdle /\ ClientIdle
    /\ seriesIn \in SeriesInputs
    /\ seriesOut = NoOutput

\* the three branches are applied to the input
Compute ==
    /\ seriesOut = NoOutput
    /\ seriesOut' = IndicatorValues(seriesIn)
    /\ UNCHANGED <<cacheVars, serverVars, keyVars, techIn, techOut, finIn, finOut,
                   seriesIn, loop, clientVars>>

SeriesNext == Compute

SeriesSpec == SeriesInit /\ [][SeriesNext]_vars

---------------------------------------------------------------------------
(* finance_tools.py: the finance_tool decorator starts the server lazily.
   Every tool invocation runs async_wrapper; invocations interleave at the
   awaits (and, being started by asyncio.run in the caller's thread, between
   any two statements). *)

MaxInvocations == 3

Invocations == 1..MaxInvocations

\* module load: _initialized = False and a FinanceServerIntegration whose
\* server_process is None (0); no process created, start_server never called
ToolsStart == [initialized |-> FALSE, server_process |-> 0, started |-> 0, calls |-> 0, lost |-> {}, pc |-> [i \in Invocations |-> "idle"]]

\* start_server: create_subprocess_exec gives a new process and its handle is
\* assigned to self.server_process whatever the attribute held (ok), or it
\* raises and the method returns False leaving the attribute alone
start_server(t, ok) ==
    IF ok
    THEN [t EXCEPT !.calls = @ + 1,
                   !.started = @ + 1,
                   !.server_process = t.started + 1,
                   !.lost = IF t.server_process # 0 THEN @ \cup {t.server_process} ELSE @]
    ELSE [t EXCEPT !.calls = @ + 1]

ToolsInit ==
    /\ ServerInit /\ KeyIdle /\ TechIdle /\ FinIdle /\ SeriesIdle
    /\ tools = ToolsStart
    /\ client = NoClient
    /\ advice = NoAdvice

\* async_wrapper: `if not _initialized:` reads the flag
Invoke(i) ==
    /\ tools.pc[i] = "idle"
    /\ tools' = [tools EXCEPT !.pc[i] = IF tools.initialized THEN "run" ELSE "init"]
    /\ UNCHANGED <<cacheVars, serverVars, keyVars, engineVars, loop, client, advice>>

\* _init_server: `await _finance_integration.start_server()` completes; the
\* return value is not looked at
InitServer(i) ==
    /\ tools.pc[i] = "init"
    /\ \E ok \in BOOLEAN :
           tools' = [start_server(tools, ok) EXCEPT !.pc[i] = "mark"]
    /\ UNCHANGED <<cacheVars, serverVars, keyVars, engineVars, loop, client, advice>>

\* _init_server: `_initialized = True`
MarkInitialized(i) ==
    /\ tools.pc[i] = "mark"
    /\ tools' = [tools EXCEPT !.initialized = TRUE, !.pc[i] = "run"]
    /\ UNCHANGED <<cacheVars, serverVars, keyVars, engineVars, loop, client, advice>>

\* the tool body calls integration.send_request, which starts the server
\* itself when self.server_process is None
RunTool(i) ==
    /\ tools.pc[i] = "run"
    /\ \E ok \in BOOLEAN :
           tools' = [(IF tools.server_process = 0 THEN start_server(tools, ok) ELSE tools)
                         EXCEPT !.pc[i] = "done"]
    /\ UNCHANGED <<cacheVars, serverVars, keyVars, engineVars, loop, client, advice>>

ToolsNext == \E i \in Invocations : Invoke(i) \/ InitServer(i) \/ MarkInitialized(i) \/ RunTool(i)

ToolsSpec == ToolsInit /\ [][ToolsNext]_vars

---------------------------------------------------------------------------
(* integration.py: send_request over the pipes to one running server.
   A call writes one request line, mcp_server_loop answers it with one
   response line, and the call reads one line with StreamReader.readline().
   The reader was created by create_subprocess_exec without `limit`, so a
   line longer than the default limit makes readline() raise ValueError
   after discarding what it had buffered. *)

MaxCalls == 3

\* what lies in the server's stdout pipe: a whole response line that fits
\* the reader's limit ("line"), response bytes that exceed it ("long"), or
\* the rest of a response whose beginning the reader discarded ("tail")
Parts == {"line", "long"}

\* handle_request answers a request object that names its id with a response
\* carrying that id: {"id", "result"} or {"id", "error"}; print() writes it
\* as one line
ServerReply(id, kind, part) == [id |-> id, kind |-> kind, part |-> part]

NothingRead == [nothing |-> TRUE]

\* __init__: request_id = 0; the server is running and both pipes are empty
ClientStart == [request_id |-> 0, stdout |-> <<>>, calls |-> <<>>]

\* readline() on the pipe: what it leaves in the pipe and what the call gets.
\* A line within the limit is returned. Beyond the limit readline() raises
\* ValueError: when the whole line had arrived it is dropped up to its
\* newline ("all"); when only part had arrived the buffer is cleared and the
\* rest, itself beyond the limit ("more") or not ("rest"), is still to come.
\* The rest of a line is returned as a line, and json.loads raises on it.
readline(pipe, arrived) ==
    LET head == Head(pipe)
    IN  IF head.part = "line"
        THEN [pipe |-> Tail(pipe), raised |-> FALSE, read |-> head]
        ELSE IF head.part = "tail"
        THEN [pipe |-> Tail(pipe), raised |-> TRUE, read |-> head]
        ELSE IF arrived = "all"
        THEN [pipe |-> Tail(pipe), raised |-> TRUE, read |-> NothingRead]
        ELSE IF arrived = "rest"
        THEN [pipe |-> <<[head EXCEPT !.part = "tail"]>> \o Tail(pipe), raised |-> TRUE, read |-> NothingRead]
        ELSE [pipe |-> pipe, raised |-> TRUE, read |-> NothingRead]

\* send_request(tool_name, parameters): request_id += 1; json.dumps(request)
\* raises for parameters that are not serialisable and nothing is written;
\* otherwise the line is written, the server appends its response, and one
\* line is read. The call returns what the line holds when json.loads
\* parsed it, (True, result) for a response without "error", and
\* (False, {"error": "Request failed: ..."}) when anything raised.
send_request(c, serialisable, kind, part, arrived) ==
    LET id == c.request_id + 1
    IN  IF ~serialisable
        THEN [c EXCEPT !.request_id = id,
                       !.calls = Append(@, [id |-> id, written |-> FALSE, read |-> NothingRead, parsed |-> FALSE, success |-> FALSE])]
        ELSE The({ [c EXCEPT !.request_id = id,
                             !.stdout = r.pipe,
                             !.calls = Append(@, [id |-> id, written |-> TRUE, read |-> r.read,
                                                  parsed |-> ~r.raised,
                                                  success |-> ~r.raised /\ r.read.kind = "result"])] :
                   r \in {readline(Append(c.stdout, ServerReply(id, kind, part)), arrived)} })

ClientInit ==
    /\ ServerInit /\ KeyIdle /\ TechIdle /\ FinIdle /\ SeriesIdle
    /\ tools = NoTools
    /\ client = ClientStart
    /\ advice = NoAdvice

SendRequest ==
    /\ Len(client.calls) < MaxCalls
    /\ \E serialisable \in BOOLEAN, kind \in {"result", "error"}, part \in Parts, arrived \in {"all", "rest", "more"} :
           client' = send_request(client, serialisable, kind, part, arrived)
    /\ UNCHANGED <<cacheVars, serverVars, keyVars, engineVars, loop, tools, advice>>

ClientNext == SendRequest

ClientSpec == ClientInit /\ [][ClientNext]_vars

---------------------------------------------------------------------------
(* integration.py: get_investment_recommendation, given what send_request
   returned for its three requests. A (success, result) pair is the record
   [ok, result]; a JSON object is a record, `key in obj` is
   key \in DOMAIN obj. *)

MaxRsiLen == 2

\* values the ratios and the RSI take around the thresholds 5, 15, 2, 30, 70
NetMargins == {3, 10, 20}
DebtToEquity == {0, 1, 3}
RsiLevels == {20, 50, 80}

\* send_request failed: the server's error object or "Request failed: ..."
Failed == [ok |-> FALSE, result |-> ErrorNote("failed")]

\* get_stock_info succeeded; the result carries the company name or is {}
InfoResults == {[ok |-> TRUE, result |-> [company |-> "name"]], Failed}

\* analyze_financials succeeded with a handler-level error object, or with
\* the categories analyze_financial_statements returns, each a dict of
\* ratios or an error object
AnalysisResults ==
    {[ok |-> TRUE, result |-> ErrorNote("Failed to retrieve financial data")], Failed}
    \cup {[ok |-> TRUE, result |-> [profitability_ratios |-> p, solvency_ratios |-> q]] :
            p \in {[net_margin |-> n] : n \in NetMargins} \cup {ErrorNote("raised")},
            q \in {[debt_to_equity |-> d] : d \in DebtToEquity} \cup {ErrorNote("raised")}}

\* calc_technical_indicators succeeded with a handler-level error object or
\* with process_indicators' result {"indicators": {"RSI": [...], ...},
\* "dates": [...]}, the RSI entry being the list rsi.tolist() or an error
\* note
TechnicalResults ==
    {[ok |-> TRUE, result |-> ErrorNote("Failed to retrieve price data for technical analysis")], Failed}
    \cup {[ok |-> TRUE, result |-> [indicators |-> [RSI |-> [values |-> q]], dates |-> Len(q)]] :
            q \in SeqsUpTo(RsiLevels, MaxRsiLen)}
    \cup {[ok |-> TRUE, result |-> [indicators |-> [RSI |-> ErrorNote("close")], dates |-> 0]]}

\* dict.get(key, 0)
GetOrZero(obj, key) == IF key \in DOMAIN obj THEN obj[key] ELSE 0

\* `if "profitability_ratios" in analysis:` net_margin > 15 gives buy with
\* confidence 0.7, net_margin < 5 gives sell with 0.6 (confidence in tenths)
AfterProfitability(analysis, rec) ==
    IF "profitability_ratios" \in DOMAIN analysis
    THEN LET net_margin == GetOrZero(analysis.profitability_ratios, "net_margin")
         IN  IF net_margin > 15 THEN [rec EXCEPT !.recommendation = "buy", !.confidence = 7]
             ELSE IF net_margin < 5 THEN [rec EXCEPT !.recommendation = "sell", !.confidence = 6]
             ELSE rec
    ELSE rec

\* `if "solvency_ratios" in analysis:` debt_to_equity > 2 raises the
\* confidence by 0.1 up to 0.9
AfterSolvency(analysis, rec) ==
    IF "solvency_ratios" \in DOMAIN analysis
    THEN LET debt_to_equity == GetOrZero(analysis.solvency_ratios, "debt_to_equity")
         IN  IF debt_to_equity > 2
             THEN [rec EXCEPT !.confidence = IF @ + 1 < 9 THEN @ + 1 ELSE 9]
             ELSE rec
    ELSE rec

\* the RSI list where process_indicators puts it: result["indicators"]["RSI"]
RsiOfResult(indicators) ==
    IF "indicators" \in DOMAIN indicators /\ "RSI" \in DOMAIN indicators.indicators
          /\ "values" \in DOMAIN indicators.indicators.RSI
    THEN indicators.indicators.RSI.values
    ELSE <<>>

\* `"RSI" in indicators` and indicators["RSI"]["rsi"]: the list the
\* technical step reads, empty when the key is not there
RsiRead(indicators) ==
    IF "RSI" \in DOMAIN indicators THEN indicators.RSI.rsi ELSE <<>>

\* `if success and "RSI" in indicators:` the latest RSI above 70 turns buy
\* into hold, below 30 turns sell into hold
AfterTechnical(success, indicators, rec) ==
    LET list == IF success THEN RsiRead(indicators) ELSE <<>>
    IN  IF list = <<>> THEN rec
        ELSE LET rsi == list[Len(list)]
             IN  IF rsi > 70 /\ rec.recommendation = "buy" THEN [rec EXCEPT !.recommendation = "hold"]
                 ELSE IF rsi < 30 /\ rec.recommendation = "sell" THEN [rec EXCEPT !.recommendation = "hold"]
                 ELSE rec

\* get_investment_recommendation(symbol), info, analysis and tech being what
\* the three send_request calls return when they are made; `sent` counts the
\* requests made
get_investment_recommendation(info, analysis, tech) ==
    IF ~info.ok THEN [recommendation |-> "insufficient_data", confidence |-> 0, sent |-> 1]
    ELSE IF ~analysis.ok THEN [recommendation |-> "insufficient_data", confidence |-> 0, sent |-> 2]
    ELSE AfterTechnical(tech.ok, tech.result,
             AfterSolvency(analysis.result,
                 AfterProfitability(analysis.result,
                     [recommendation |-> "neutral", confidence |-> 5, sent |-> 3])))

AdviceInit ==
    /\ ServerInit /\ KeyIdle /\ TechIdle /\ FinIdle /\ SeriesIdle
    /\ tools = NoTools
    /\ client = NoClient
    /\ \E i \in InfoResults, a \in AnalysisResults, t \in TechnicalResults :
           advice = [info |-> i, analysis |-> a, tech |-> t, out |-> NoOutput]

Recommend ==
    /\ advice.out = NoOutput
    /\ advice' = [advice EXCEPT !.out = get_investment_recommendation(advice.info, advice.analysis, advice.tech)]
    /\ UNCHANGED <<cacheVars, serverVars, keyVars, engineVars, loop, tools, client>>

AdviceNext == Recommend

AdviceSpec == AdviceInit /\ [][AdviceNext]_vars

---------------------------------------------------------------------------
(* Properties of DataCache, checked under CacheSpec.  A step is a call of  *)
(* a DataCache method when lastOp.seq changes; lastOp' then holds the call *)
(* with its results, cache the store before it and cache' the store after. *)

CacheCall(name) == lastOp'.seq # lastOp.seq /\ lastOp'.op = name

\* C2: a get(k) before the entry's expiry returns the value set; a get(k)
\* after the expiry has passed returns None and removes the entry, and a
\* later cleanup() does not count a key that a get() has purged.
C2_GetHonoursExpiry ==
    [][/\ (CacheCall("get") /\ lastOp'.key \in DOMAIN cache) =>
              LET entry == cache[lastOp'.key]
              IN  /\ now < entry.expiry => lastOp'.value = entry.value
                  /\ now > entry.expiry =>
                         (lastOp'.value = NoneVal /\ lastOp'.key \notin DOMAIN cache')
       /\ CacheCall("cleanup") => lastOp'.removed \cap purged = {}
      ]_vars

\* a get() found an entry expired and purged it, then cleanup() ran and
\* removed one other key
C2_Witness ==
    /\ lastOp.op = "cleanup"
    /\ purged # {}
    /\ lastOp.removed # {}
    /\ lastOp.retCount = 1

\* C3: an entry with expiresAt <= now is absent for get(), the instant
\* now = expiresAt included.
C3_ExpiredAtBoundaryIsAbsent ==
    [][(CacheCall("get") /\ lastOp'.key \in DOMAIN cache
        /\ cache[lastOp'.key].expiry <= now)
           => lastOp'.value = NoneVal
      ]_vars

\* C4: delete(k) returns true iff a live (unexpired) entry existed for k,
\* and k is absent afterwards.
C4_DeleteTrueIffLive ==
    [][CacheCall("delete") =>
           /\ lastOp'.retBool <=>
                  (lastOp'.key \in DOMAIN cache /\ now <= cache[lastOp'.key].expiry)
           /\ lastOp'.key \notin DOMAIN cache'
      ]_vars

\* C5: set(k, v, ttl) replaces the entry of k by v with expiry now + ttl
\* (now + 3600 when ttl is omitted), also when that is earlier than the old
\* expiry, and changes no other key.
C5_SetReplaces ==
    [][CacheCall("set") =>
           /\ lastOp'.key \in DOMAIN cache'
           /\ cache'[lastOp'.key].value = lastOp'.value
           /\ cache'[lastOp'.key].expiry =
                  now + (IF lastOp'.ttl.given THEN lastOp'.ttl.secs ELSE 3600)
           /\ DOMAIN cache' = DOMAIN cache \cup {lastOp'.key}
           /\ \A k \in DOMAIN cache : k # lastOp'.key => cache'[k] = cache[k]
      ]_vars

\* set() replaced the value of an existing entry and moved its expiry to an
\* earlier time, with another key in the store
C5_Witness ==
    /\ lastOp.op = "set"
    /\ lastOp.found
    /\ cache[lastOp.key].expiry < lastOp.old.expiry
    /\ cache[lastOp.key].value # lastOp.old.value
    /\ DOMAIN cache # {lastOp.key}

---------------------------------------------------------------------------
(* The cache of a server that is also swept and probed directly: the       *)
(* DataCache methods and a tool handler act on the same store.             *)

SweepRequest == Request(Str("1"), Str("get_stock_price"), ParamsSymbol)

\* a key of a direct caller and the key under which the handler stores
SweepKeys == {<<"k1">>, GenerateCacheKey("get_stock_price", ParamsSymbol)}

SweepNext ==
    \/ Tick(1)
    \/ \E key \in SweepKeys : Get(key)
    \/ \E key \in SweepKeys : Set(key, Val("list", "data"), Ttl(0))
    \/ \E key \in SweepKeys : Delete(key)
    \/ Clear
    \/ Cleanup
    \/ HandleRequest(SweepRequest)

SweepSpec == Init /\ [][SweepNext]_vars

\* C6: cleanup() removes exactly the entries whose expiry has passed,
\* returns their number and leaves the live ones unchanged; get, set,
\* delete and the tool handlers touch no key but the ones they are called
\* with, so an entry only leaves the store through cleanup, clear, a delete
\* or a read of its key.
C6_OnlyCleanupSweeps ==
    [][/\ CacheCall("cleanup") =>
              /\ lastOp'.removed = {k \in DOMAIN cache : now > cache[k].expiry}
              /\ lastOp'.retCount = Cardinality(lastOp'.removed)
              /\ DOMAIN cache' = (DOMAIN cache) \ lastOp'.removed
              /\ \A k \in DOMAIN cache' : cache'[k] = cache[k]
       /\ (CacheCall("get") \/ CacheCall("set") \/ CacheCall("delete")) =>
              \A k \in (DOMAIN cache) \ {lastOp'.key} :
                  k \in DOMAIN cache' /\ cache'[k] = cache[k]
       /\ reqCount' # reqCount =>
              \A k \in (DOMAIN cache) \ cacheReads' :
                  k \in DOMAIN cache' /\ cache'[k] = cache[k]
       /\ \A k \in DOMAIN cache :
              k \notin DOMAIN cache' =>
                  \/ CacheCall("cleanup") \/ CacheCall("clear")
                  \/ (CacheCall("get") \/ CacheCall("delete")) /\ lastOp'.key = k
                  \/ reqCount' # reqCount /\ k \in cacheReads'
      ]_vars

\* after a request was handled and its result stored, cleanup() ran and
\* removed one expired entry, and the entry of the request is still stored
C6_Witness ==
    /\ lastOp.op = "cleanup"
    /\ reqCount > 0
    /\ lastOp.removed # {}
    /\ lastOp.retCount = 1
    /\ GenerateCacheKey("get_stock_price", ParamsSymbol) \in DOMAIN cache

---------------------------------------------------------------------------
(* Properties of _generate_cache_key, checked under KeySpec. *)

\* the same key/value pairs, in any order, at every depth of mappings
RECURSIVE SameParams(_, _)
SameParams(a, b) ==
    IF IsMap(a) /\ IsMap(b)
    THEN /\ {it.k : it \in Range(a.items)} = {it.k : it \in Range(b.items)}
         /\ \A x \in Range(a.items) : \A y \in Range(b.items) :
                x.k = y.k => SameParams(x.v, y.v)
    ELSE a = b

\* C7: two (tool name, parameters) inputs get the same cache key exactly
\* when the tool names are equal and the parameters hold the same key/value
\* pairs at every nesting depth, whatever the insertion order.
C7_KeyIgnoresInsertionOrder ==
    keyOut # <<>> =>
        ((keyOut[1] = keyOut[2]) <=>
            (keyIn.name1 = keyIn.name2 /\ SameParams(keyIn.params1, keyIn.params2)))

\* two parameter mappings that differ only in the insertion order of a
\* nested mapping got the same key
C7_Witness ==
    /\ keyOut # <<>>
    /\ keyIn.name1 = keyIn.name2
    /\ keyIn.params1 =
           Map(<<Pair("a", Map(<<Pair("a", Num("1")), Pair("b", Num("2"))>>))>>)
    /\ keyIn.params2 =
           Map(<<Pair("a", Map(<<Pair("b", Num("2")), Pair("a", Num("1"))>>))>>)
    /\ keyOut[1] = keyOut[2]

---------------------------------------------------------------------------
(* Properties of handle_request, checked under Spec.  A step handles a     *)
(* request when reqCount grows; lastReq' is the request, response' the     *)
(* answer, cache and cache' the store before and after.                    *)

Handled == reqCount' = reqCount + 1

RegisteredTool(req) ==
    req.kind = "object" /\ req.name.t = "str" /\ req.name.text \in Tools

ErrorCodes == {"UNKNOWN_TOOL", "PROCESSING_ERROR", "INVALID_JSON", "INTERNAL_ERROR"}

\* C1: when the same request for a registered tool is handled twice in
\* succession within the TTL of the tool, the second response equals the
\* first and the adapter is not called while the second is handled,
\* whatever the parameters and whatever the adapter returned.
C1_RepeatIsServedFromCache ==
    [][(/\ Handled
        /\ reqCount > 0
        /\ lastReq' = lastReq
        /\ RegisteredTool(lastReq)
        /\ now - lastTime < GetTtlForTool(lastReq.name.text))
           => (response' = response /\ adapterCalls' = 0)
      ]_vars

\* C8: handle_request lets no exception out and returns one response, with
\* a result or with an error, whatever the input.
C8_AlwaysOneResponse ==
    reqCount > 0 =>
        /\ "raised" \notin DOMAIN response
        /\ ("result" \in DOMAIN response) # ("error" \in DOMAIN response)

\* a handler raised after its adapter call and the request was answered
\* with an error
C8_Witness ==
    /\ reqCount > 0
    /\ handlerRan = "calc_technical_indicators"
    /\ adapterCalls = 1
    /\ "error" \in DOMAIN response
    /\ response.error.code = "PROCESSING_ERROR"

\* C9: a response is {id, result} or {id, error: {message, code}} with one
\* of the four codes; an error response always carries the id.
C9_ResponseShape ==
    reqCount > 0 =>
        \/ DOMAIN response = {"id", "result"}
        \/ /\ DOMAIN response = {"id", "error"}
           /\ DOMAIN response.error = {"message", "code"}
           /\ response.error.code \in ErrorCodes

\* C10: a request naming no registered tool is answered UNKNOWN_TOOL, and
\* no handler runs, no adapter is called and the cache is unchanged.
C10_UnknownToolRejected ==
    [][(Handled /\ lastReq'.kind = "object" /\ ~RegisteredTool(lastReq'))
           => /\ "error" \in DOMAIN response'
              /\ response'.error.code = "UNKNOWN_TOOL"
              /\ handlerRan' = "none"
              /\ adapterCalls' = 0
              /\ cache' = cache
      ]_vars

\* the TTL table of the specification, by the tool that stores the entry
TableTtl(tool_name) ==
    CASE tool_name = "get_stock_info" -> 86400
      [] tool_name = "get_stock_price" -> 3600
      [] tool_name = "get_financial_report" -> 604800
      [] tool_name = "calc_technical_indicators" -> 3600
      [] tool_name = "get_industry_analysis" -> 86400
      [] tool_name = "analyze_financials" -> 604800
      [] OTHER -> 3600

\* C11: every entry a handler stores expires TTL(tool) seconds after it is
\* stored, by the table 86400 / 3600 / 604800 / 3600 / 86400, with 604800
\* for the analyze_financials result; a name outside the table gets 3600.
C11_StoredEntryExpiresAfterToolTtl ==
    [][/\ Handled =>
              \A k \in DOMAIN cache' :
                  (k \notin DOMAIN cache \/ cache'[k] # cache[k])
                      => cache'[k].expiry = now + TableTtl(k[1])
       /\ GetTtlForTool("no_such_tool") = 3600
      ]_vars

\* analyze_financials missed everywhere and stored its result and the three
\* sub-results, each with the expiry of its own tool
C11_Witness ==
    /\ handlerRan = "analyze_financials"
    /\ adapterCalls = 3
    /\ \E k \in DOMAIN cache :
           k[1] = "analyze_financials" /\ cache[k].expiry = lastTime + 604800
    /\ \E k \in DOMAIN cache :
           k[1] = "get_stock_info" /\ cache[k].expiry = lastTime + 86400
    /\ \E k \in DOMAIN cache :
           k[1] = "get_stock_price" /\ cache[k].expiry = lastTime + 3600

\* the keys of the sub-calls analyze_financials makes for a symbol
SubKeyReport(symbol) ==
    GenerateCacheKey("get_financial_report",
        Map(<<Pair("symbol", symbol), Pair("report_type", Str("all")),
              Pair("periods", Num("4"))>>))
SubKeyInfo(symbol) == GenerateCacheKey("get_stock_info", Map(<<Pair("symbol", symbol)>>))
SubKeyPrice(symbol) ==
    GenerateCacheKey("get_stock_price",
        Map(<<Pair("symbol", symbol), Pair("period", Str("daily"))>>))

\* a live, truthy entry is stored under key in store c at time t
Live(c, key, t) == key \in DOMAIN c /\ t <= c[key].expiry /\ Truthy(c[key].value)

\* the step handles an analyze_financials request with a parameter mapping
AnalyzeHandled ==
    /\ Handled
    /\ lastReq'.kind = "object"
    /\ lastReq'.name = Str("analyze_financials")
    /\ IsMap(lastReq'.parameters)

\* C14: a freshly computed analysis has no market_ratios category when
\* include_market_ratios is false or absent, and then no stock-info or
\* stock-price sub-call is made; it has the category only when the flag is
\* set and the stock info carries a share count and the price rows a close.
C14_MarketRatiosOnlyWhenResolved ==
    [][(/\ AnalyzeHandled
        /\ ~Live(cache, GenerateCacheKey("analyze_financials", lastReq'.parameters), now)
        /\ "result" \in DOMAIN response')
           => LET params == lastReq'.parameters
                  flag == JsonTruthy(DictGet(params, "include_market_ratios", JsonFalse))
                  symbol == DictGet(params, "symbol", JsonNull)
                  kind == response'.result.kind
              IN  /\ kind \in {"analysis", "analysis_market", "error"}
                  /\ ~flag => /\ kind # "analysis_market"
                              /\ cacheReads' \cap {SubKeyInfo(symbol), SubKeyPrice(symbol)} = {}
                              /\ adapterCalls' <= 1
                  /\ kind = "analysis_market" =>
                         /\ flag
                         /\ SubKeyInfo(symbol) \in DOMAIN cache'
                         /\ cache'[SubKeyInfo(symbol)].value.kind = "data"
                         /\ SubKeyPrice(symbol) \in DOMAIN cache'
                         /\ cache'[SubKeyPrice(symbol)].value.kind \in {"data", "unser"}
      ]_vars

\* the flag was set and all three sub-calls reached the adapter, but the
\* price or the share count did not resolve: the analysis came without the
\* market category
C14_Witness ==
    /\ handlerRan = "analyze_financials"
    /\ lastReq.parameters = ParamsMarketRatios
    /\ adapterCalls = 3
    /\ "result" \in DOMAIN response
    /\ response.result.kind = "analysis"

\* an unexpired entry is stored under key in store c at time t
Unexpired(c, key, t) == key \in DOMAIN c /\ t <= c[key].expiry

\* the keys of the sub-calls an analyze_financials request asks for
SubKeysOf(params) ==
    LET symbol == DictGet(params, "symbol", JsonNull)
    IN  {SubKeyReport(symbol)}
        \cup (IF JsonTruthy(DictGet(params, "include_market_ratios", JsonFalse))
              THEN {SubKeyInfo(symbol), SubKeyPrice(symbol)} ELSE {})

\* the step handles a direct request for one of the three sub-tools
SubToolHandled ==
    /\ Handled
    /\ RegisteredTool(lastReq')
    /\ lastReq'.name.text \in {"get_financial_report", "get_stock_info", "get_stock_price"}

\* C15: a composed analysis calls the adapter at most once for each of its
\* sub-call keys that holds no unexpired entry, and a direct request for a
\* sub-tool whose key holds an unexpired entry, whoever stored it, calls the
\* adapter not at all.
C15_SubCallsShareCache ==
    [][/\ AnalyzeHandled =>
              adapterCalls' <= Cardinality({k \in SubKeysOf(lastReq'.parameters) :
                                              ~Unexpired(cache, k, now)})
       /\ (/\ SubToolHandled
           /\ Unexpired(cache, GenerateCacheKey(lastReq'.name.text, lastReq'.parameters),
                        now))
              => adapterCalls' = 0
      ]_vars

\* C20: a request for a registered tool never leaves handle_request as an
\* exception, and a result that is not data is an object with an error
\* field: never an empty value and never a list that wraps the error.
C20_UpstreamFailureIsErrorObject ==
    [][(Handled /\ RegisteredTool(lastReq')) =>
           /\ "raised" \notin DOMAIN response'
           /\ "result" \in DOMAIN response' =>
                  /\ response'.result.kind # "empty"
                  /\ response'.result.kind = "error" => response'.result.type = "dict"
      ]_vars

\* the tools whose handler returns what the adapter returned
FetchingTools ==
    {"get_stock_info", "get_stock_price", "get_financial_report", "get_industry_analysis"}

\* the step handles a request for a fetching tool with a parameter mapping
FetchHandled ==
    /\ Handled
    /\ RegisteredTool(lastReq')
    /\ lastReq'.name.text \in FetchingTools
    /\ IsMap(lastReq'.parameters)

\* C26: an error the adapter returned to a fetching tool is stored under the
\* request's key for the tool's TTL, and while the entry has not expired an
\* identical request is answered with that error without an adapter call.
C26_AdapterErrorIsCached ==
    [][FetchHandled =>
           LET key == GenerateCacheKey(lastReq'.name.text, lastReq'.parameters)
           IN  /\ (/\ adapterCalls' = 1
                   /\ "result" \in DOMAIN response'
                   /\ response'.result.kind = "error")
                      => /\ key \in DOMAIN cache'
                         /\ cache'[key] = [value |-> response'.result,
                                           expiry |-> now + TableTtl(lastReq'.name.text)]
               /\ (Unexpired(cache, key, now) /\ cache[key].value.kind = "error")
                      => /\ adapterCalls' = 0
                         /\ response' = Success(lastReq'.id, cache[key].value)
                         /\ cache' = cache
      ]_vars

\* the financial report failed, and the same request a week later is still
\* answered with the stored error
C26_Witness ==
    /\ reqCount = 2
    /\ now = StartTime + TtlFinancialReport
    /\ handlerRan = "get_financial_report"
    /\ lastReq.parameters = ParamsReport
    /\ adapterCalls = 0
    /\ "result" \in DOMAIN response
    /\ response.result.kind = "error"

\* the step handles a calc_technical_indicators request with a parameter
\* mapping
TechnicalHandled ==
    /\ Handled
    /\ lastReq'.kind = "object"
    /\ lastReq'.name = Str("calc_technical_indicators")
    /\ IsMap(lastReq'.parameters)

\* C27: calc_technical_indicators reads no key but its own, calls the
\* adapter whenever its own key misses, whatever get_stock_price entries
\* are stored, and leaves every get_stock_price entry as it was.
C27_TechnicalBypassesPriceCache ==
    [][TechnicalHandled =>
           LET key == GenerateCacheKey("calc_technical_indicators", lastReq'.parameters)
           IN  /\ cacheReads' = {key}
               /\ ~Live(cache, key, now) => adapterCalls' = 1
               /\ \A k \in DOMAIN cache \cup DOMAIN cache' :
                      k[1] = "get_stock_price" =>
                          /\ k \in DOMAIN cache /\ k \in DOMAIN cache'
                          /\ cache'[k] = cache[k]
      ]_vars

\* the prices of the symbol are cached and live, and the indicators request
\* called the adapter all the same
C27_Witness ==
    /\ handlerRan = "calc_technical_indicators"
    /\ lastReq.parameters = ParamsSymbol
    /\ adapterCalls = 1
    /\ Live(cache, SubKeyPrice(Str("A")), now)
    /\ cache[SubKeyPrice(Str("A"))].value.kind = "data"

---------------------------------------------------------------------------
(* Properties of mcp_server_loop, checked under LoopSpec. *)

\* C12: a request answered with an error changes no cache entry but those
\* of the keys it reads, and the loop goes on to write the response and to
\* read the next line: it ends only at the end of the input.
C12_FailureLeavesLoopAndOtherKeys ==
    [][/\ (Handled /\ "error" \in DOMAIN response') =>
              /\ \A k \in (DOMAIN cache) \ cacheReads' :
                     k \in DOMAIN cache' /\ cache'[k] = cache[k]
              /\ loop'.pc = "write"
       /\ loop'.pc = "done" => loop'.eof
      ]_vars

\* the second line failed in a handler while the entry stored for the
\* first stayed in the cache, and the third line was read and answered
\* with a result
C12_Witness ==
    /\ loop.written = <<1, 2, 3>>
    /\ loop.failed = {2}
    /\ "result" \in DOMAIN response
    /\ handlerRan = "calc_technical_indicators"
    /\ \E k \in DOMAIN cache :
           k[1] = "get_stock_info" /\ cache[k].expiry = StartTime + 86400

\* C13: the loop handles one line at a time: the responses written are
\* those of lines 1, 2, ... in this order, one for each line read, and the
\* response to a line is written before the next line is read.
C13_OneRequestAtATime ==
    /\ loop.written = [i \in 1..Len(loop.written) |-> i]
    /\ Len(loop.written) = IF loop.pc \in {"handle", "write"}
                           THEN loop.read - 1 ELSE loop.read
    /\ loop.pc \in {"handle", "write"} => ~loop.eof

\* three lines were read and answered in order, then the input ended
C13_Witness ==
    /\ loop.pc = "done"
    /\ loop.read = 3
    /\ loop.written = <<1, 2, 3>>

---------------------------------------------------------------------------
(* Properties of process_indicators, checked under TechSpec. *)

\* process_indicators has returned or raised
Calculated == techOut # NoOutput

\* the result is the single top-level error object
TopLevelError(out) == "error" \in DOMAIN out

\* the concepts that resolve to a column through the alias table
Resolved(columns) ==
    {c \in Range(Concepts) : \E a \in Range(RequiredCols[c]) : a \in columns}

\* C16: on a frame that passes the column validation and for a list of
\* identifiers that are strings, every requested identifier has an entry in
\* the output - a series or an error note - under the identifier or its
\* upper-case form.
C16_EveryIdentifierHasAnEntry ==
    (/\ Calculated
     /\ ~TopLevelError(techOut)
     /\ \A i \in 1..Len(techIn.indicators) : techIn.indicators[i].t = "str") =>
        /\ "indicators" \in DOMAIN techOut
        /\ \A i \in 1..Len(techIn.indicators) :
              LET id == techIn.indicators[i]
              IN  \/ id \in DOMAIN techOut.indicators
                  \/ id.t = "str" /\ Str(Upper(id.text)) \in DOMAIN techOut.indicators

Lower(text) ==
    CASE text \in {"Open", "OPEN"} -> "open"
      [] text = "High" -> "high"
      [] text = "Low" -> "low"
      [] text = "Close" -> "close"
      [] text = "Volume" -> "volume"
      [] OTHER -> text

\* concept c resolves to a column when case is ignored
ResolvesAnyCase(c, columns) ==
    \E col \in columns : \E a \in Range(RequiredCols[c]) : Lower(col) = Lower(a)

\* C18: a frame is rejected as a whole exactly when one of open, high, low,
\* close does not resolve to a column, names compared without regard to case.
C18_RejectedIffOhlcIncomplete ==
    Calculated =>
        (TopLevelError(techOut) <=>
            \E c \in {"open", "high", "low", "close"} : ~ResolvesAnyCase(c, techIn.columns))

---------------------------------------------------------------------------
(* Properties of the fundamental engine, checked under FinSpec. *)

\* analyze_financial_statements has returned the analysis of a current period
Analyzed == finOut # NoOutput /\ finIn.income # <<>> /\ finIn.balance # <<>>

\* the line items of items that the period holds are all numbers
Numeric(data, items) == \A i \in items \cap DOMAIN data : IsNum(data[i])

\* the line item is zero or absent from the period
ZeroOrAbsent(data, item) == item \notin DOMAIN data \/ data[item] = Amt(0)

\* the category came back as {error: message}
IsError(category) == DOMAIN category = {"error"}

\* every ratio of the set is in the category with the value 0
AllZero(category, ratios) ==
    \A f \in ratios : f \in DOMAIN category /\ category[f].n = 0

---------------------------------------------------------------------------
(* Properties of both engines, checked under EngineSpec. *)

\* the object is an error alone, or carries no error field
ErrorXorData(object) == "error" \in DOMAIN object => DOMAIN object = {"error"}

\* C21: the result of process_indicators and of analyze_financial_statements
\* is {error} alone or data without an error field, and so is each entry of
\* an indicator and of a ratio category.
C21_ErrorAndDataExclusive ==
    /\ (techOut # NoOutput /\ "raised" \notin DOMAIN techOut) =>
           /\ ErrorXorData(techOut)
           /\ "indicators" \in DOMAIN techOut =>
                  \A k \in DOMAIN techOut.indicators : ErrorXorData(techOut.indicators[k])
    /\ finOut # NoOutput =>
           /\ ErrorXorData(finOut)
           /\ "error" \notin DOMAIN finOut =>
                  \A c \in DOMAIN finOut : ErrorXorData(finOut[c])

\* one category is an error and another holds its ratios
C21_Witness ==
    /\ finOut # NoOutput
    /\ "solvency_ratios" \in DOMAIN finOut
    /\ IsError(finOut.solvency_ratios)
    /\ ~IsError(finOut.profitability_ratios)
    /\ finOut.profitability_ratios.net_margin = [n |-> 10000, d |-> 100]

---------------------------------------------------------------------------
(* Properties of the indicator formulas, checked under SeriesSpec. *)

\* the entries have been computed
Computed == seriesOut # NoOutput

\* the two numbers are equal
SameNumber(a, b) == IsNum(a) /\ IsNum(b) /\ a.n * b.d = b.n * a.d

\* close[lo] + ... + close[hi] of a column of whole numbers
RECURSIVE SumOfCloses(_, _, _)
SumOfCloses(close, lo, hi) ==
    IF lo > hi THEN 0
    ELSE IF lo = hi THEN close[lo].n
    ELSE SumOfCloses(close, lo, (lo + hi) \div 2) + SumOfCloses(close, (lo + hi) \div 2 + 1, hi)

\* the MA{p} series of the MA entry
MaSeries(entry, p) ==
    CASE p = 5 -> entry.MA5
      [] p = 10 -> entry.MA10
      [] p = 20 -> entry.MA20
      [] p = 60 -> entry.MA60

\* C22: for p in 5, 10, 20, 60 the MA{p} series is as long as the close
\* series, null before row p - 1 and the mean of the last p closes from
\* there on.
C22_MovingAverageIsRollingMean ==
    Computed =>
        \A p \in {5, 10, 20, 60} :
            LET ma == MaSeries(seriesOut.MA, p)
                close == seriesIn.close
            IN  /\ Len(ma) = Len(close)
                /\ \A i \in 1..Len(close) :
                       /\ i < p => ma[i] = NaN
                       /\ i >= p => /\ IsNum(ma[i])
                                    /\ ma[i].n * p = ma[i].d * SumOfCloses(close, i - p + 1, i)

\* MA5 of six rows of the constant 2: null in the first four places, 2 after
C22_Witness ==
    /\ Computed
    /\ seriesIn.close = [i \in 1..6 |-> Amt(2)]
    /\ \A i \in 1..4 : seriesOut.MA.MA5[i] = NaN
    /\ \A i \in 5..6 : SameNumber(seriesOut.MA.MA5[i], Amt(2))

\* every close is above the one before
StrictlyIncreasing(close) == \A i \in 2..Len(close) : close[i].n > close[i - 1].n

\* the float is inf, NaN, or the largest value an RSI takes
NonFiniteOrMaximal(v) == ~IsNum(v) \/ SameNumber(v, Amt(100))

\* C23: on a strictly increasing close series the RSI entry is a series of
\* values and not an error note, and where the 14-row window is full the
\* value is non-finite or the maximum 100.
C23_RsiWithoutLossesDoesNotRaise ==
    (Computed /\ StrictlyIncreasing(seriesIn.close)) =>
        /\ "values" \in DOMAIN seriesOut.RSI
        /\ "error" \notin DOMAIN seriesOut.RSI
        /\ Len(seriesOut.RSI.values) = Len(seriesIn.close)
        /\ \A i \in RsiWindow..Len(seriesIn.close) :
               NonFiniteOrMaximal(seriesOut.RSI.values[i])

\* fifteen rising rows: the last two RSI values are 100
C23_Witness ==
    /\ Computed
    /\ seriesIn.close = [i \in 1..15 |-> Amt(i)]
    /\ "values" \in DOMAIN seriesOut.RSI
    /\ seriesOut.RSI.values[14] = Amt(100)
    /\ seriesOut.RSI.values[15] = Amt(100)

\* the sign of the change of the close from row i - 1 to row i
ChangeSign(close, i) ==
    IF close[i].n > close[i - 1].n THEN 1
    ELSE IF close[i].n < close[i - 1].n THEN -1 ELSE 0

\* C24: with a volume column OBV starts at 0 and each row adds the volume
\* signed by the change of the close, nothing when the close did not
\* change; without one, OBV alone is an error note and MA and RSI are
\* computed.
C24_ObvIsSignedVolumeSum ==
    Computed =>
        /\ "volume" \in DOMAIN seriesIn =>
               /\ "values" \in DOMAIN seriesOut.OBV
               /\ Len(seriesOut.OBV.values) = Len(seriesIn.close)
               /\ \A i \in 1..Len(seriesIn.close) :
                      LET obv == seriesOut.OBV.values
                      IN  /\ IsNum(obv[i]) /\ obv[i].d = 1
                          /\ i = 1 => obv[i].n = 0
                          /\ i > 1 => obv[i].n = obv[i - 1].n
                                          + ChangeSign(seriesIn.close, i) * seriesIn.volume[i].n
        /\ "volume" \notin DOMAIN seriesIn =>
               /\ DOMAIN seriesOut.OBV = {"error"}
               /\ "values" \in DOMAIN seriesOut.RSI
               /\ DOMAIN seriesOut.MA = {"MA5", "MA10", "MA20", "MA60"}

\* the close stays, rises and falls: OBV is 0, 0, +1, -2
C24_Witness ==
    /\ Computed
    /\ seriesIn = [close |-> <<Amt(1), Amt(1), Amt(2), Amt(1)>>,
                   volume |-> <<Amt(3), Amt(3), Amt(1), Amt(3)>>]
    /\ seriesOut.OBV = [values |-> <<Amt(0), Amt(0), Amt(1), Amt(-2)>>]

---------------------------------------------------------------------------
(* Properties of calculate_profitability_ratios, checked under ProfitSpec. *)

---------------------------------------------------------------------------
(* Properties of the lazy start in finance_tools.py *)

\* C28: whatever the interleaving of tool invocations, including first
\* invocations that run concurrently, the server is started at most once: no
\* state is reached in which start_server has been called twice and the
\* handle of an earlier server process has been overwritten without that
\* process being stopped.
C28_ServerStartedAtMostOnce ==
    tools # NoTools => ~(tools.calls >= 2 /\ tools.lost # {})

---------------------------------------------------------------------------
(* Properties of send_request *)

\* C29: in any sequence of send_request calls on one instance talking to one
\* running server the request ids are 1, 2, 3, ..., and the response line
\* the k-th call reads and returns is the server's response to the k-th
\* request (it carries the k-th request's id), also after earlier calls of
\* the sequence have failed.
C29_ResponsesMatchRequests ==
    client # NoClient =>
        \A k \in 1..Len(client.calls) :
            /\ client.calls[k].id = k
            /\ client.calls[k].parsed => client.calls[k].read.id = k

---------------------------------------------------------------------------
(* Properties of get_investment_recommendation *)

Recommended == advice # NoAdvice /\ advice.out # NoOutput

\* the net margin the analysis gives, 0 standing for none
NetMarginOf(a) ==
    IF a.ok /\ "profitability_ratios" \in DOMAIN a.result
    THEN GetOrZero(a.result.profitability_ratios, "net_margin")
    ELSE 0

HasNetMargin(a) ==
    a.ok /\ "profitability_ratios" \in DOMAIN a.result
         /\ "net_margin" \in DOMAIN a.result.profitability_ratios

\* the RSI list of the calc_technical_indicators result
RsiListOf(t) == IF t.ok THEN RsiOfResult(t.result) ELSE <<>>

LatestRsi(t) == RsiListOf(t)[Len(RsiListOf(t))]

\* C30: against the response shapes of the server,
\* get_investment_recommendation returns insufficient_data, and sends no
\* further request, when the stock-info or the analyze_financials request
\* fails; otherwise it returns buy, sell, hold or neutral; and the technical
\* step takes effect: with net margin > 15 and the latest RSI of the
\* calc_technical_indicators result above 70 the recommendation is hold
\* instead of buy, with net margin < 5 and the latest RSI below 30 it is
\* hold instead of sell.
C30_RecommendationFollowsTheThreeSteps ==
    Recommended =>
        LET i == advice.info
            a == advice.analysis
            t == advice.tech
            out == advice.out
        IN  /\ ~i.ok => out.recommendation = "insufficient_data" /\ out.sent = 1
            /\ i.ok /\ ~a.ok => out.recommendation = "insufficient_data" /\ out.sent = 2
            /\ i.ok /\ a.ok => out.recommendation \in {"buy", "sell", "hold", "neutral"}
            /\ i.ok /\ HasNetMargin(a) /\ RsiListOf(t) # <<>> =>
                   /\ NetMarginOf(a) > 15 /\ LatestRsi(t) > 70 => out.recommendation = "hold"
                   /\ NetMarginOf(a) < 5 /\ LatestRsi(t) < 30 => out.recommendation = "hold"

====
